---- MODULE Spec2Model ----
(***************************************************************************)
(* A model of DayHot: the number normalizer (_parse_number), the retry      *)
(* loops of the GitHub Trending and Hacker News scrapers, the Product Hunt *)
(* GraphQL pagination, the DeepSeek translator, the Markdown generator,    *)
(* run_daily_task and the two entry points (main.py, scheduler.py).        *)
(*                                                                         *)
(* One call runs per behaviour; `call` names it.  Strings that the code    *)
(* inspects character by character are sequences of one-character strings. *)
(***************************************************************************)
EXTENDS Integers, Sequences, FiniteSets, TLC

VARIABLES
    call,          \* the operation this behaviour runs
    pc,            \* position inside the running call
    max_retries,   \* the max_retries argument of the retry loops
    attempt,       \* the loop variable `attempt` of the retry loops
    sleeps,        \* durations passed to time.sleep by the retry loops, in order
    result,        \* the value the call returned (<<>> until it returns)
    raised,        \* TRUE iff the call ended by propagating an exception
    requests,      \* number of attempts / API requests issued so far (observer)
    fails,         \* number of attempts the remote side made fail (observer)
    served,        \* the last response if it offers records, else how it
                   \* fails (observer)
    throttle_sleeps, \* time.sleep(1) calls: of _get_news_details in the last attempt, of translate_repositories
    all_posts,     \* _fetch_from_api: the posts aggregated so far
    has_next_page, \* _fetch_from_api: hasNextPage of the last page
    cursor,        \* _fetch_from_api: the cursor of the next query
    wire,          \* the API's view of the pagination (observer): the cursor in
                   \* the last query, the pageInfo and the number of posts
                   \* served before that query, and those served up to now
    pn_text,       \* argument of _parse_number
    pn_result      \* its return value

VARIABLES
    text_arg,      \* the argument `text` of translate_text
    content_arg,   \* the argument `content` of summarize_news_content
    title_arg,     \* the argument `title` of summarize_news_content
    repositories_arg, \* the argument of translate_repositories, as it was passed
    translated_repos  \* translate_repositories: the records appended so far

VARIABLES
    tool,          \* scheduler.py: self.tool is set; main.py: DayHotTool() was built
    is_running,    \* DayHotScheduler.is_running
    next_run,      \* when the registered daily job is next due (0: no job)
    now,           \* the clock, in polling intervals of 60 seconds
    last_run,      \* the last run_daily_task: what its stages met, what it did
    runs,          \* number of run_daily_task calls started (observer)
    files,         \* the pages in the output directory (observer)
    signals,       \* number of stop signals delivered (observer)
    exit_status    \* the exit status of the process (-1 while it lives)

\* the arguments of the translator's single-text calls
text_args == <<text_arg, content_arg, title_arg>>

\* the variables of the entry points
pipeline == <<tool, is_running, next_run, now, last_run, runs, files, signals, exit_status>>

\* the variables the scrapers leave alone
others == <<text_args, repositories_arg, translated_repos, pipeline>>

\* the variables of the scrapers
scraping == <<max_retries, attempt, sleeps, throttle_sleeps, all_posts,
              has_next_page, cursor, wire, pn_text, pn_result>>

----------------------------------------------------------------------------
(* Bounds of the model *)

\* largest max_retries argument tried (the code's default is 3)
MaxRetries == 3
\* most elements on a served GitHub Trending page
MaxElems == 5
\* most ids in a served Hacker News top-story list
MaxStories == 3
\* the request counter of the observer stops counting here
RequestCap == 5
\* longest free-form text handed to _parse_number
MaxLen == 3
\* most digits before the decimal point in a well-formed count
MaxIntDigits == 2
\* most digits after the decimal point in a well-formed count
MaxFracDigits == 1
\* longest text handed to translate_text
MaxText == 2
\* longest title and longest backend response handed to summarize_news_content
MaxTitle == 121
MaxResponse == 122
\* most records handed to translate_repositories
MaxRepos == 2
\* most records a scraper hands to run_daily_task
MaxSource == 2
\* polling intervals in a day
Day == 3
\* the clock stops here
MaxClock == 6
\* most polling intervals a run_daily_task call takes
MaxRunTime == 1

----------------------------------------------------------------------------
(* Small helpers *)

Min(a, b) == IF a < b THEN a ELSE b

RECURSIVE Pow(_, _)
Pow(b, n) == IF n = 0 THEN 1 ELSE b * Pow(b, n - 1)

\* all sequences over S of length n
RECURSIVE SeqsOfLen(_, _)
SeqsOfLen(S, n) ==
    IF n = 0 THEN {<<>>}
    ELSE {<<x>> \o s : x \in S, s \in SeqsOfLen(S, n - 1)}

\* all sequences over S of length lo..hi
SeqsBetween(S, lo, hi) == UNION {SeqsOfLen(S, n) : n \in lo..hi}

\* s without the elements for which Drop holds (str.replace(c, ''))
RECURSIVE Without(_, _)
Without(s, D) ==
    IF s = <<>> THEN <<>>
    ELSE IF Head(s) \in D THEN Without(Tail(s), D)
    ELSE <<Head(s)>> \o Without(Tail(s), D)

Contains(s, c) == \E i \in 1..Len(s) : s[i] = c

----------------------------------------------------------------------------
(* Binary arithmetic on naturals wider than 32-bit integers.               *)
(* A natural is a little-endian sequence of bits without leading zeros;    *)
(* zero is the empty sequence.  IEEE-754 doubles are built on top of it.   *)

RECURSIVE BitLen(_)
BitLen(n) == IF n = 0 THEN 0 ELSE 1 + BitLen(n \div 2)

NatToBits(n) == [i \in 1..BitLen(n) |-> (n \div Pow(2, i - 1)) % 2]

Zeros(k) == [i \in 1..k |-> 0]

\* drop leading (most significant) zeros
Trim(b) ==
    LET ones == {i \in 1..Len(b) : b[i] = 1}
    IN  IF ones = {} THEN <<>>
        ELSE SubSeq(b, 1, CHOOSE i \in ones : \A j \in ones : j <= i)

\* Carries are propagated limb by limb: a limb is LimbBits bits.
LimbBits == 12
LimbBase == 4096

BitAt(b, i) == IF i <= Len(b) THEN b[i] ELSE 0

\* value of the n bits of b from position lo on
RECURSIVE BitsVal(_, _, _)
BitsVal(b, lo, n) ==
    IF n = 0 THEN 0 ELSE BitAt(b, lo) + 2 * BitsVal(b, lo + 1, n - 1)

ToLimbs(b) ==
    [j \in 1..((Len(b) + LimbBits - 1) \div LimbBits)
        |-> BitsVal(b, LimbBits * (j - 1) + 1, LimbBits)]

FromLimbs(L) ==
    Trim([i \in 1..(LimbBits * Len(L))
            |-> (L[(i - 1) \div LimbBits + 1] \div Pow(2, (i - 1) % LimbBits)) % 2])

RECURSIVE LimbsVal(_)
LimbsVal(L) == IF L = <<>> THEN 0 ELSE Head(L) + LimbBase * LimbsVal(Tail(L))

\* the value of b as an integer (b below 2^31)
BitsToNat(b) == LimbsVal(ToLimbs(b))

\* L * c + carry, for a small multiplier c
RECURSIVE MulLimbs(_, _, _)
MulLimbs(L, c, carry) ==
    IF L = <<>> THEN (IF carry = 0 THEN <<>> ELSE <<carry>>)
    ELSE LET t == Head(L) * c + carry
         IN  <<t % LimbBase>> \o MulLimbs(Tail(L), c, t \div LimbBase)

\* b * c for a small multiplier c
MulSmall(b, c) == FromLimbs(MulLimbs(ToLimbs(b), c, 0))

\* long division of the limbs L[j..] by a small c, most significant limb first:
\* <<quotient limbs, remainder>>
RECURSIVE DivLimbs(_, _, _)
DivLimbs(L, j, c) ==
    IF j > Len(L) THEN <<<<>>, 0>>
    ELSE LET hi == DivLimbs(L, j + 1, c)
             t  == hi[2] * LimbBase + L[j]
         IN  <<<<t \div c>> \o hi[1], t % c>>

\* <<b \div c, b % c>> for a small divisor c
DivSmall(b, c) ==
    LET qr == DivLimbs(ToLimbs(b), 1, c) IN <<FromLimbs(qr[1]), qr[2]>>

\* b + 1
Inc(b) ==
    LET zeros == {i \in 1..Len(b) : b[i] = 0}
    IN  IF zeros = {} THEN Zeros(Len(b)) \o <<1>>
        ELSE LET z == CHOOSE i \in zeros : \A j \in zeros : i <= j
             IN  [i \in 1..Len(b) |-> IF i < z THEN 0 ELSE IF i = z THEN 1 ELSE b[i]]

\* width of a double's significand
MantissaBits == 53

\* A finite non-negative double is [m |-> bits, e |-> exponent], value m * 2^e,
\* with at most MantissaBits significant bits.  Round53 rounds the exact value
\* (b + a non-zero tail iff sticky) * 2^e to nearest, ties to even.
Round53(b, sticky, e) ==
    IF Len(b) <= MantissaBits THEN [m |-> b, e |-> e]
    ELSE LET drop == Len(b) - MantissaBits
             kept == SubSeq(b, drop + 1, Len(b))
             half == b[drop] = 1
             st   == sticky \/ \E i \in 1..(drop - 1) : b[i] = 1
             up   == half /\ (st \/ kept[1] = 1)
         IN  [m |-> IF up THEN Inc(kept) ELSE kept, e |-> e + drop]

\* float("<n>e-<d>"): the double nearest to n / 10^d
DecToDouble(n, d) ==
    IF n = 0 THEN [m |-> <<>>, e |-> 0]
    ELSE IF d = 0 THEN Round53(NatToBits(n), FALSE, 0)
    ELSE LET nb == NatToBits(n)
             p  == Pow(10, d)
             k  == MantissaBits + 1 + Len(NatToBits(p)) - Len(nb)
             qr == DivSmall(Zeros(k) \o nb, p)
         IN  Round53(qr[1], qr[2] # 0, 0 - k)

\* x * 1000^times in double arithmetic (one correctly rounded multiplication;
\* 1000 and 1000000 are exact doubles)
DoubleMulScale(x, times) ==
    IF times = 0 THEN x
    ELSE LET p1 == MulSmall(x.m, 1000)
             p  == IF times = 2 THEN MulSmall(p1, 1000) ELSE p1
         IN  Round53(p, FALSE, x.e)

\* int(x) for a non-negative double: truncation toward zero
DoubleToInt(x) ==
    IF x.e >= 0 THEN BitsToNat(Zeros(x.e) \o x.m)
    ELSE IF 0 - x.e >= Len(x.m) THEN 0
    ELSE BitsToNat(SubSeq(x.m, 1 - x.e, Len(x.m)))

----------------------------------------------------------------------------
(* _parse_number (github_scraper.py and producthunt_scraper.py hold the    *)
(* same code).  Texts are over FreeChars; float() is modelled for exactly    *)
(* these characters: an optional sign, digits and at most one point.       *)

Digits == {"0", "1", "2", "3", "4", "5", "6", "7", "8", "9"}

DigitVal(c) ==
    CASE c = "0" -> 0 [] c = "1" -> 1 [] c = "2" -> 2 [] c = "3" -> 3
      [] c = "4" -> 4 [] c = "5" -> 5 [] c = "6" -> 6 [] c = "7" -> 7
      [] c = "8" -> 8 [] c = "9" -> 9

\* str.lower() on the letters of the alphabet
LowerChar(c) == IF c = "K" THEN "k" ELSE IF c = "M" THEN "m" ELSE c

Lower(s) == [i \in 1..Len(s) |-> LowerChar(s[i])]

\* the text after an optional leading sign
Unsigned(t) == IF t # <<>> /\ t[1] \in {"-", "+"} THEN Tail(t) ELSE t

\* float(t) succeeds (it raises ValueError otherwise)
IsFloatLiteral(t) ==
    LET s == Unsigned(t)
    IN  /\ \A i \in 1..Len(s) : s[i] \in Digits \cup {"."}
        /\ Cardinality({i \in 1..Len(s) : s[i] = "."}) <= 1
        /\ \E i \in 1..Len(s) : s[i] \in Digits

\* value of a digit string, most significant digit first
RECURSIVE DigitsVal(_)
DigitsVal(s) ==
    IF s = <<>> THEN 0
    ELSE 10 * DigitsVal(SubSeq(s, 1, Len(s) - 1)) + DigitVal(s[Len(s)])

\* number of digits after the point
FracDigits(s) ==
    IF Contains(s, ".")
    THEN Len(s) - (CHOOSE i \in 1..Len(s) : s[i] = ".")
    ELSE 0

\* int(float(t) * 1000^times) for a float literal t
IntOfFloatTimes(t, times) ==
    LET s   == Unsigned(t)
        x   == DecToDouble(DigitsVal(Without(s, {"."})), FracDigits(s))
        mag == DoubleToInt(DoubleMulScale(x, times))
    IN  IF t[1] = "-" THEN 0 - mag ELSE mag

parse_number(text) ==
    IF text = <<>> THEN 0
    ELSE LET t == Lower(Without(text, {",", " "}))
         IN  IF Contains(t, "k")
             THEN LET u == Without(t, {"k"})
                  IN  IF IsFloatLiteral(u) THEN IntOfFloatTimes(u, 1) ELSE 0
             ELSE IF Contains(t, "m")
             THEN LET u == Without(t, {"m"})
                  IN  IF IsFloatLiteral(u) THEN IntOfFloatTimes(u, 2) ELSE 0
             ELSE IF IsFloatLiteral(t) THEN IntOfFloatTimes(t, 0) ELSE 0

\* The texts _parse_number is applied to: counts of the documented form
\* <number>[,]*[kKmM]? and arbitrary short texts.
CountDigits == {"2", "3"}

Suffixes == {<<>>, <<"k">>, <<"K">>, <<"m">>, <<"M">>}

\* <int digits>[.<frac digits>][,]<suffix>, one comma inside when asked for
CountText(ip, fp, inner, trail, suffix) ==
    (IF inner THEN <<Head(ip), ",">> \o Tail(ip) ELSE ip)
    \o (IF fp = <<>> THEN <<>> ELSE <<".">> \o fp)
    \o (IF trail THEN <<",">> ELSE <<>>)
    \o suffix

CountTexts ==
    {CountText(ip, fp, inner, trail, suffix) :
        ip \in SeqsBetween(CountDigits, 1, MaxIntDigits),
        fp \in SeqsBetween(CountDigits, 0, MaxFracDigits),
        inner \in BOOLEAN, trail \in BOOLEAN, suffix \in Suffixes}

FreeChars == {"2", "7", ".", ",", " ", "k", "M", "x", "-"}

FreeTexts == SeqsBetween(FreeChars, 0, MaxLen)

PNTexts == CountTexts \cup FreeTexts

----------------------------------------------------------------------------
(* GitHubTrendingScraper *)

\* An element of the served page: its tag and class decide which selector
\* finds it; repo is the href of its repository link (<<>>: none found);
\* broken: reading it raises inside _parse_repository_article.
RepoNames == <<"a/b", "c/d", "e/f", "g/h", "i/j", "k/l", "m/n">>

StarTexts ==
    << <<"1", ".", "2", "k">>, <<"3", ",", "4", "0", "0">>, <<"5", "0", "0">>,
       <<"3", "2", ".", "3", "k">>, <<>>, <<"4", ".", "1", "M">>, <<"x">> >>

ElemKinds == {"ok", "noname", "broken"}

\* how tags and classes are laid out over the entries of a page
Layouts == {"article.Box-row", "div.Box-row", "article", "div",
            "article.Box-row+div.Box-row", "div.Box-row+article"}

ElemTag(layout, i) ==
    CASE layout = "article.Box-row" -> "article"
      [] layout = "div.Box-row" -> "div"
      [] layout = "article" -> "article"
      [] layout = "div" -> "div"
      [] layout = "article.Box-row+div.Box-row" -> IF i % 2 = 1 THEN "article" ELSE "div"
      [] layout = "div.Box-row+article" -> IF i % 2 = 1 THEN "div" ELSE "article"

ElemClass(layout, i) ==
    CASE layout = "article.Box-row" -> "Box-row"
      [] layout = "div.Box-row" -> "Box-row"
      [] layout = "article" -> ""
      [] layout = "div" -> ""
      [] layout = "article.Box-row+div.Box-row" -> "Box-row"
      [] layout = "div.Box-row+article" -> IF i % 2 = 1 THEN "Box-row" ELSE ""

Element(layout, kind, i) ==
    [tag |-> ElemTag(layout, i), class |-> ElemClass(layout, i), pos |-> i,
     broken |-> kind = "broken",
     repo |-> IF kind = "noname" THEN "" ELSE RepoNames[((i - 1) % Len(RepoNames)) + 1],
     stars_text |-> StarTexts[((i - 1) % Len(StarTexts)) + 1]]

GHPages ==
    UNION {{[i \in 1..n |-> Element(layout, kinds[i], i)] :
                layout \in Layouts, kinds \in [1..n -> ElemKinds]} :
           n \in 0..MaxElems}

\* what the remote side answers to one GET of the trending page
GHResponses ==
    {[status |-> "neterr", page |-> <<>>], [status |-> "exc", page |-> <<>>]}
    \cup {[status |-> "ok", page |-> p] : p \in GHPages}

\* soup.find_all(tag, class_=class); class "" stands for no class filter
find_all(page, tag, class) ==
    SelectSeq(page, LAMBDA e : e.tag = tag /\ (class = "" \/ e.class = class))

\* the selector cascade of get_trending_repositories
\* (a faulty variant: any <article> is taken before the Box-row selectors)
select_articles_generic_first(page) ==
    LET a == find_all(page, "article", "Box-row")
        b == find_all(page, "div", "Box-row")
        c == find_all(page, "article", "")
    IN  IF a # <<>> THEN a ELSE IF c # <<>> THEN c ELSE b

select_articles(page) ==
    LET a == find_all(page, "article", "Box-row")
        b == find_all(page, "div", "Box-row")
        c == find_all(page, "article", "")
    IN  IF a # <<>> THEN a ELSE IF b # <<>> THEN b ELSE c

None == [none |-> TRUE]

parse_repository_article(article) ==
    IF article.broken THEN None
    ELSE IF article.repo = "" THEN None
    ELSE [name |-> article.repo,
          pos |-> article.pos,
          stars |-> parse_number(article.stars_text)]

\* the loop over repo_articles: the records of the entries that parse, in order
\* (a faulty variant: the first entry that fails ends the loop)
RECURSIVE parse_articles_abort(_)
parse_articles_abort(articles) ==
    IF articles = <<>> THEN <<>>
    ELSE LET repo_info == parse_repository_article(Head(articles))
         IN  IF repo_info # None
             THEN <<repo_info>> \o parse_articles_abort(Tail(articles))
             ELSE <<>>

RECURSIVE parse_articles(_)
parse_articles(articles) ==
    IF articles = <<>> THEN <<>>
    ELSE LET repo_info == parse_repository_article(Head(articles))
         IN  (IF repo_info # None THEN <<repo_info>> ELSE <<>>)
             \o parse_articles(Tail(articles))

\* what one pass of the loop body does with a response: the branch it ends
\* in and the repositories it found
gh_attempt(resp) ==
    IF resp.status = "neterr" THEN [branch |-> "RequestException", repositories |-> <<>>]
    ELSE IF resp.status = "exc" THEN [branch |-> "Exception", repositories |-> <<>>]
    ELSE LET repo_articles == select_articles(resp.page)
             repositories == parse_articles(repo_articles)
         IN  IF repo_articles = <<>>
             THEN [branch |-> "no articles", repositories |-> <<>>]
             ELSE IF repositories # <<>>
             THEN [branch |-> "return", repositories |-> repositories]
             ELSE [branch |-> "no repositories", repositories |-> <<>>]

\* gh_attempt over every response, evaluated once

\* The observer's verdict on a response, from the page alone: the entries of
\* the most specific selector that has any, and those of them that carry a
\* repository link and can be read.
AscSeq(S) ==
    [k \in 1..Cardinality(S) |-> CHOOSE i \in S : Cardinality({j \in S : j <= i}) = k]

Primary(page) == {i \in DOMAIN page : page[i].tag = "article" /\ page[i].class = "Box-row"}
Fallback(page) == {i \in DOMAIN page : page[i].tag = "div" /\ page[i].class = "Box-row"}
Generic(page) == {i \in DOMAIN page : page[i].tag = "article"}

Listed(page) ==
    IF Primary(page) # {} THEN Primary(page)
    ELSE IF Fallback(page) # {} THEN Fallback(page)
    ELSE Generic(page)

Readable(page, S) == {i \in S : ~page[i].broken /\ page[i].repo # ""}

GHVerdict(resp) ==
    IF resp.status # "ok" THEN [status |-> resp.status]
    ELSE IF Listed(resp.page) = {} THEN [status |-> "no entries"]
    ELSE IF Readable(resp.page, Listed(resp.page)) = {} THEN [status |-> "no records"]
    ELSE resp

\* every attempt the site can give: what it served and how the pass went
\* (computed once)
GHRuns == {[served |-> GHVerdict(resp), out |-> gh_attempt(resp)] : resp \in GHResponses}


\* the observer's count of requests
Count(n) == Min(n + 1, RequestCap)

\* the observer's count of failed attempts
CountFail(verdict) == IF verdict.status = "ok" THEN fails ELSE fails + 1

\* `return repositories` / `return top_10_news`
\* (a faulty variant: the loop goes on after records were found)
KeepLooping(records) ==
    /\ result' = records
    /\ attempt' = attempt + 1
    /\ UNCHANGED <<pc, sleeps>>

ReturnRecords(records) ==
    /\ result' = records
    /\ pc' = "done"
    /\ UNCHANGED <<sleeps, attempt>>

\* the failure branches of the retry loops: sleep and continue, or return []
\* (faulty variants: no retry at all; one sleep and one pass too many)
GiveUpAtOnce ==
    /\ result' = <<>>
    /\ pc' = "done"
    /\ UNCHANGED <<sleeps, attempt>>

SleepAfterLast ==
    IF attempt < max_retries
    THEN /\ sleeps' = Append(sleeps, Pow(2, attempt))
         /\ attempt' = attempt + 1
         /\ UNCHANGED <<pc, result>>
    ELSE /\ result' = <<>>
         /\ pc' = "done"
         /\ UNCHANGED <<sleeps, attempt>>

RetryOrGiveUp ==
    IF attempt < max_retries - 1
    THEN /\ sleeps' = Append(sleeps, Pow(2, attempt))
         /\ attempt' = attempt + 1
         /\ UNCHANGED <<pc, result>>
    ELSE /\ result' = <<>>
         /\ pc' = "done"
         /\ UNCHANGED <<sleeps, attempt>>

\* one pass of `for attempt in range(max_retries)` of get_trending_repositories
GHAttempt ==
    /\ call = "github" /\ pc = "run" /\ attempt < max_retries
    /\ \E run \in GHRuns :
          /\ served' = run.served
          /\ requests' = Count(requests)
          /\ fails' = CountFail(run.served)
          /\ IF run.out.branch = "return"
             THEN ReturnRecords(run.out.repositories)
             ELSE RetryOrGiveUp
    /\ UNCHANGED <<others, call, max_retries, raised, throttle_sleeps, pn_text, pn_result,
                   all_posts, has_next_page, cursor, wire>>

\* the loop ran out without returning (max_retries = 0)
GHExhausted ==
    /\ call = "github" /\ pc = "run" /\ attempt >= max_retries
    /\ result' = <<>>
    /\ pc' = "done"
    /\ UNCHANGED <<others, call, max_retries, attempt, sleeps, raised, requests, fails,
                   served, throttle_sleeps, pn_text, pn_result, all_posts, has_next_page,
                   cursor, wire>>

----------------------------------------------------------------------------
(* HackerNewsScraper *)

\* sorted(s, key=..., reverse=True) for the keys K[i] of s[i]: descending,
\* equal keys in their original order
SortDesc(s, K) ==
    LET n == Len(s)
        rank(i) == Cardinality({j \in 1..n : K[j] > K[i]})
                   + Cardinality({j \in 1..(i - 1) : K[j] = K[i]}) + 1
    IN  [p \in 1..n |-> s[CHOOSE i \in 1..n : rank(i) = p]]

\* top_story_ids[:15] and sorted_news[:10]
TopIds == 15
TopNews == 10

\* What the item endpoint serves for one id: error (the request or its JSON
\* fails), notstory (type is not 'story'), or a story; a story may come
\* without a title, and with a null score.
ItemKinds == {"error", "notstory", "story", "story2", "untitled", "nullscore"}

Item(kind, i) ==
    [id |-> i,
     error |-> kind = "error",
     type |-> IF kind = "notstory" THEN "job" ELSE "story",
     title |-> IF kind = "untitled" THEN "" ELSE "Show HN",
     score_null |-> kind = "nullscore",
     score |-> IF kind = "story2" THEN 2 ELSE 1]

\* what the remote side answers during one attempt: the top-story list
\* (status "fail": the request fails) and, per id, the item it serves
HNResponses ==
    {[status |-> "fail", items |-> <<>>]}
    \cup UNION {{[status |-> "ok", items |-> [i \in 1..n |-> Item(kinds[i], i)]] :
                    kinds \in [1..n -> ItemKinds]} : n \in 0..MaxStories}

\* _get_top_story_ids: the ids served, [] when the request fails
get_top_story_ids(resp) == IF resp.status = "ok" THEN resp.items ELSE <<>>

get_story_info(item) ==
    IF item.error THEN None
    ELSE IF item.type # "story" THEN None
    ELSE [id |-> item.id, title |-> item.title, score |-> item.score,
          score_null |-> item.score_null, content |-> ""]

\* _get_news_details: the stories among the ids, in order
RECURSIVE get_news_details(_)
get_news_details(story_ids) ==
    IF story_ids = <<>> THEN <<>>
    ELSE LET news_info == get_story_info(Head(story_ids))
         IN  (IF news_info # None THEN <<news_info>> ELSE <<>>)
             \o get_news_details(Tail(story_ids))

\* comparing the scores raises TypeError once a null score meets another score
sort_raises(news_list) ==
    Len(news_list) >= 2 /\ \E i \in 1..Len(news_list) : news_list[i].score_null

\* what one pass of the loop body does with the responses
hn_attempt(resp) ==
    LET top_story_ids == get_top_story_ids(resp)
        news_list == get_news_details(SubSeq(top_story_ids, 1, Min(TopIds, Len(top_story_ids))))
        sorted_news == SortDesc(news_list, [i \in 1..Len(news_list) |-> news_list[i].score])
    IN  IF top_story_ids = <<>>
        THEN [branch |-> "no ids", news |-> <<>>, throttled |-> 0]
        ELSE IF news_list = <<>>
        THEN [branch |-> "no news", news |-> <<>>, throttled |-> 0]
        ELSE IF sort_raises(news_list)
        THEN [branch |-> "Exception", news |-> <<>>, throttled |-> Len(news_list)]
        ELSE [branch |-> "return",
              news |-> SubSeq(sorted_news, 1, Min(TopNews, Len(sorted_news))),
              throttled |-> Len(news_list)]

\* hn_attempt over every response, evaluated once

\* The observer's verdict on a response: the stories among the first ids;
\* scores that cannot be ordered make the attempt fail.
Stories(items) ==
    {i \in 1..Min(TopIds, Len(items)) : ~items[i].error /\ items[i].type = "story"}

HNVerdict(resp) ==
    IF resp.status # "ok" \/ resp.items = <<>> THEN [status |-> "no ids"]
    ELSE IF Stories(resp.items) = {} THEN [status |-> "no news"]
    ELSE IF Cardinality(Stories(resp.items)) >= 2
            /\ \E i \in Stories(resp.items) : resp.items[i].score_null
    THEN [status |-> "exc"]
    ELSE resp

\* every attempt the API can give: what it served and how the pass went
\* (computed once)
HNRuns == {[served |-> HNVerdict(resp), out |-> hn_attempt(resp)] : resp \in HNResponses}

\* one pass of `for attempt in range(max_retries)` of get_trending_news
HNAttempt ==
    /\ call = "hackernews" /\ pc = "run" /\ attempt < max_retries
    /\ \E run \in HNRuns :
          /\ served' = run.served
          /\ requests' = Count(requests)
          /\ throttle_sleeps' = run.out.throttled
          /\ fails' = CountFail(run.served)
          /\ IF run.out.branch = "return"
             THEN ReturnRecords(run.out.news)
             ELSE RetryOrGiveUp
    /\ UNCHANGED <<others, call, max_retries, raised, pn_text, pn_result,
                   all_posts, has_next_page, cursor, wire>>

\* the loop ran out without returning (max_retries = 0)
HNExhausted ==
    /\ call = "hackernews" /\ pc = "run" /\ attempt >= max_retries
    /\ result' = <<>>
    /\ pc' = "done"
    /\ UNCHANGED <<others, call, max_retries, attempt, sleeps, raised, requests, fails,
                   served, throttle_sleeps, pn_text, pn_result, all_posts, has_next_page,
                   cursor, wire>>

----------------------------------------------------------------------------
(* ProductHuntScraper: get_trending_products and _fetch_from_api *)

\* `while has_next_page and len(all_posts) < 30` and `sorted_posts[:10]`
PostCeiling == 30
TopProducts == 10

\* n posts; the u-th has no name; votes vary with the position
Nodes(n, base, u) ==
    [i \in 1..n |-> [id |-> base + i,
                     name |-> IF i = u THEN "" ELSE "Product",
                     votesCount |-> (base + 7 * i) % 23]]

\* the node lists a page of the API may carry
NodeLists == {Nodes(0, 0, 0), Nodes(10, 0, 0), Nodes(10, 100, 2), Nodes(20, 200, 0)}

Cursors == {"c1", "c2"}

\* what the API answers to one POST
PHResponses ==
    {[status |-> "neterr"], [status |-> "badformat"]}
    \cup {[status |-> "ok", nodes |-> nodes, hasNextPage |-> more, endCursor |-> c] :
            nodes \in NodeLists, more \in BOOLEAN, c \in Cursors}

\* (a faulty variant: the posts are taken in the order the API gave them)
fetch_products_unsorted(posts) ==
    LET top == SubSeq(posts, 1, Min(TopProducts, Len(posts)))
    IN  SelectSeq([i \in 1..Len(top) |->
                      [name |-> top[i].name, id |-> top[i].id, tags |-> <<>>,
                       votes |-> top[i].votesCount]],
                  LAMBDA product_info : product_info.name # "")

\* the tail of _fetch_from_api: sort by votes, keep the first ten, drop the
\* posts without a name
fetch_products(posts) ==
    LET sorted_posts == SortDesc(posts, [i \in 1..Len(posts) |-> posts[i].votesCount])
        top == SubSeq(sorted_posts, 1, Min(TopProducts, Len(sorted_posts)))
    IN  SelectSeq([i \in 1..Len(top) |->
                      [name |-> top[i].name, id |-> top[i].id, tags |-> <<>>,
                       votes |-> top[i].votesCount]],
                  LAMBDA product_info : product_info.name # "")

\* the lists of posts the loop can have gathered, and what fetch_products
\* makes of each (computed once)
RECURSIVE PostListsFrom(_)
PostListsFrom(posts) ==
    {posts} \cup
        IF Len(posts) < PostCeiling
        THEN UNION {PostListsFrom(posts \o nodes) : nodes \in NodeLists \ {<<>>}}
        ELSE {}

PostLists == PostListsFrom(<<>>)

Products == [posts \in PostLists |-> fetch_products(posts)]

\* the loop condition of the pagination
\* (a faulty variant: either condition keeps the loop going)
more_pages_or == has_next_page \/ Len(all_posts) < PostCeiling

more_pages == has_next_page /\ Len(all_posts) < PostCeiling

\* get_trending_products calls _fetch_from_api, which asks for a token first;
\* without one it raises, and get_trending_products returns []
PHStart ==
    /\ call = "producthunt" /\ pc = "run"
    /\ \E token \in BOOLEAN :
          IF token
          THEN pc' = "paging" /\ UNCHANGED result
          ELSE pc' = "done" /\ result' = <<>>
    /\ UNCHANGED <<others, call, max_retries, attempt, sleeps, raised, requests, fails, served,
                   throttle_sleeps, pn_text, pn_result, all_posts, has_next_page,
                   cursor, wire>>

\* one pass of the pagination loop: a POST with the cursor, then either an
\* exception (get_trending_products returns []) or the page is added
PHFetchPage ==
    /\ call = "producthunt" /\ pc = "paging" /\ more_pages
    /\ requests' = Count(requests)
    /\ \E resp \in PHResponses :
          /\ served' = [status |-> resp.status]
          /\ IF resp.status = "ok"
             THEN /\ all_posts' = all_posts \o resp.nodes
                  /\ has_next_page' = resp.hasNextPage
                  /\ cursor' = resp.endCursor
                  /\ wire' = [query_cursor |-> cursor,
                              before |-> wire.latest,
                              latest |-> [first |-> FALSE,
                                          hasNextPage |-> resp.hasNextPage,
                                          endCursor |-> resp.endCursor,
                                          total |-> wire.latest.total + Len(resp.nodes)]]
                  /\ UNCHANGED <<pc, result, fails>>
             ELSE /\ pc' = "done"
                  /\ result' = <<>>
                  /\ fails' = fails + 1
                  /\ wire' = [wire EXCEPT !.query_cursor = cursor, !.before = wire.latest]
                  /\ UNCHANGED <<all_posts, has_next_page, cursor>>
    /\ UNCHANGED <<others, call, max_retries, attempt, sleeps, raised, throttle_sleeps,
                   pn_text, pn_result>>

\* the loop is over: _fetch_from_api returns its products and
\* get_trending_products returns products[:10], [] when there are none
PHFinish ==
    /\ call = "producthunt" /\ pc = "paging" /\ ~more_pages
    /\ LET products == Products[all_posts]
       IN  result' = SubSeq(products, 1, Min(TopProducts, Len(products)))
    /\ pc' = "done"
    /\ UNCHANGED <<others, call, max_retries, attempt, sleeps, raised, requests, fails, served,
                   throttle_sleeps, pn_text, pn_result, all_posts, has_next_page,
                   cursor, wire>>

----------------------------------------------------------------------------
(* DeepSeekTranslator (translator.py).  A Python value is a record: a str   *)
(* with its characters, None, or a value of another type.  "F", "Y", ":"    *)
(* stand for the three characters of the prefix that translate_text strips. *)

Str(s) == [type |-> "str", s |-> s]
PyNone == [type |-> "None"]
PyInt == [type |-> "int"]

\* str.strip()
RECURSIVE LStrip(_)
LStrip(s) == IF s # <<>> /\ Head(s) = " " THEN LStrip(Tail(s)) ELSE s

RECURSIVE RStrip(_)
RStrip(s) ==
    IF s # <<>> /\ s[Len(s)] = " " THEN RStrip(SubSeq(s, 1, Len(s) - 1)) ELSE s

Strip(s) == LStrip(RStrip(s))

\* str.startswith(prefix), s[n:]
StartsWith(s, prefix) ==
    Len(s) >= Len(prefix) /\ SubSeq(s, 1, Len(prefix)) = prefix

From(s, n) == SubSeq(s, n + 1, Len(s))

TranslationPrefix == <<"F", "Y", ":">>

\* the texts handed to translate_text
TextChars == {" ", "a"}
Texts == SeqsBetween(TextChars, 0, MaxText)

\* what the message content of a 2xx answer with choices can be
Contents ==
    {Str(<<>>), Str(<<" ">>), Str(<<"b">>), Str(<<" ", "b", " ">>),
     Str(TranslationPrefix), Str(TranslationPrefix \o <<" ", "b">>),
     Str(<<" ">> \o TranslationPrefix \o <<"b", " ">>),
     Str(<<"b">> \o TranslationPrefix), PyNone, PyInt}

\* what the backend does with one POST
ApiFailures == {"network", "status", "json", "no choices", "empty choices", "no content"}
ApiAnswers ==
    {[kind |-> k] : k \in ApiFailures} \cup {[kind |-> "ok", content |-> c] : c \in Contents}

\* _call_deepseek_api: the content of the first choice, "" on any failure
call_deepseek_api(answer) ==
    IF answer.kind = "ok" THEN answer.content ELSE Str(<<>>)

\* Python truth of a returned value
Truthy(v) == IF v.type = "str" THEN v.s # <<>> ELSE v.type # "None"

\* (a faulty variant: the blank test is missing)
is_blank_never(t) == FALSE

\* `not text or text.strip() == ""`
is_blank(t) == t = <<>> \/ Strip(t) = <<>>

\* (a faulty variant: a failed call gives the empty string)
fallback_empty(t) == <<>>

\* `return text` of the failure branches
fallback(t) == t

\* translate_text(text) when the backend would answer `answer`: the value
\* returned and the number of backend calls
translate_text(t, answer) ==
    IF is_blank(t) THEN [value |-> t, calls |-> 0]
    ELSE LET response == call_deepseek_api(answer)
         IN  IF ~Truthy(response) THEN [value |-> fallback(t), calls |-> 1]
             ELSE IF response.type # "str"
             THEN [value |-> fallback(t), calls |-> 1]   \* .strip() raises, caught
             ELSE LET translated == Strip(response.s)
                  IN  [value |-> IF StartsWith(translated, TranslationPrefix)
                                 THEN Strip(From(translated, 3))
                                 ELSE translated,
                       calls |-> 1]

TranslateText ==
    /\ call = "translate_text" /\ pc = "run"
    /\ \E answer \in ApiAnswers :
          LET out == translate_text(text_arg, answer)
          IN  /\ result' = out.value
              /\ requests' = out.calls
              /\ served' = answer
              /\ fails' = IF out.calls = 1 /\ answer.kind # "ok" THEN 1 ELSE 0
    /\ pc' = "done"
    /\ UNCHANGED <<call, raised, text_args, repositories_arg, translated_repos, scraping,
                   pipeline>>

----------------------------------------------------------------------------
(* summarize_news_content.  Two-character words stand for the Chinese words *)
(* of the prefixes: ZJ, ZY, GK, FY, each with and without the colon.        *)

MinSummary == 10
SummaryCap == 120
TitleFloor == 5
DetailNoteLen == 11

Xs(n, c) == [i \in 1..n |-> c]

\* the note appended to a short summary, the title separator, the ellipsis
DetailNote == Xs(DetailNoteLen, "n")
TitleColon == <<":">>
Ellipsis == <<".", ".", ".">>
NoContent == <<"N", "O", "N", "E">>
SummaryFailed == <<"F", "A", "I", "L", "E", "D">>
SummaryError == <<"F", "A", "I", "L">>

SummaryPrefixes ==
    << <<"Z", "J", ":">>, <<"Z", "Y", ":">>, <<"G", "K", ":">>, <<"F", "Y", ":">>,
       <<"Z", "J">>, <<"Z", "Y">>, <<"G", "K">>, <<"F", "Y">> >>

\* for prefix in prefixes: if summary.startswith(prefix): cut it and strip
RECURSIVE strip_prefixes(_, _)
strip_prefixes(summary, k) ==
    IF k > Len(SummaryPrefixes) THEN summary
    ELSE strip_prefixes(
            IF StartsWith(summary, SummaryPrefixes[k])
            THEN Strip(From(summary, Len(SummaryPrefixes[k])))
            ELSE summary,
            k + 1)

\* the arguments and the backend's message contents
Titles == {Xs(n, "t") : n \in {0, TitleFloor, TitleFloor + 1, SummaryCap - 1, MaxTitle}}
NewsContents == {<<>>, <<"c">>}
ResponseLens == {1, MinSummary - 1, MinSummary, SummaryCap, SummaryCap + 1, MaxResponse}
SummaryContents ==
    {Str(Xs(n, "x")) : n \in ResponseLens}
    \cup {Str(SummaryPrefixes[1] \o Xs(n, "x")) : n \in {0, MinSummary, SummaryCap + 1}}
    \cup {Str(<<" ">>), Str(<<>>), Str(<<" ", "F", "Y", "Z", "J", ":", "x">>), PyNone, PyInt}
SummaryAnswers ==
    {[kind |-> k] : k \in ApiFailures}
    \cup {[kind |-> "ok", content |-> c] : c \in SummaryContents}

\* the length corrections: a short summary gets the title in front or the
\* note behind, a long one is cut and gets the ellipsis
fit_length(summary, title) ==
    IF Len(summary) < MinSummary
    THEN IF title # <<>> /\ Len(title) > TitleFloor
         THEN title \o TitleColon \o summary
         ELSE summary \o DetailNote
    ELSE IF Len(summary) > SummaryCap
    THEN SubSeq(summary, 1, SummaryCap) \o Ellipsis
    ELSE summary

summarize_news_content(content, title, answer) ==
    IF content = <<>> /\ title = <<>> THEN [value |-> NoContent, calls |-> 0]
    ELSE LET response == call_deepseek_api(answer)
         IN  IF ~Truthy(response)
             THEN [value |-> IF title # <<>> THEN title \o DetailNote ELSE SummaryFailed,
                   calls |-> 1]
             ELSE IF response.type # "str"   \* .strip() raises, caught
             THEN [value |-> IF title # <<>> THEN title \o DetailNote ELSE SummaryError,
                   calls |-> 1]
             ELSE [value |-> fit_length(strip_prefixes(Strip(response.s), 1), title),
                   calls |-> 1]

SummarizeNews ==
    /\ call = "summarize_news_content" /\ pc = "run"
    /\ \E answer \in SummaryAnswers :
          LET out == summarize_news_content(content_arg, title_arg, answer)
          IN  /\ result' = out.value
              /\ requests' = out.calls
              /\ served' = answer
              /\ fails' = IF out.calls = 1 /\ answer.kind # "ok" THEN 1 ELSE 0
    /\ pc' = "done"
    /\ UNCHANGED <<call, raised, text_args, repositories_arg, translated_repos, scraping,
                   pipeline>>

----------------------------------------------------------------------------
(* translate_repositories.  The records are those the GitHub scraper makes: *)
(* each has a name and a description (a stripped string, maybe empty); a    *)
(* README may have been attached.                                           *)

\* the keys features, features_zh, use_cases, use_cases_zh, core_value_zh of
\* a record: not set, or set to these values
Unset == [type |-> "unset"]
Keys(features, features_zh, use_cases, use_cases_zh, core_value_zh) ==
    [type |-> "set", features |-> features, features_zh |-> features_zh,
     use_cases |-> use_cases, use_cases_zh |-> use_cases_zh,
     core_value_zh |-> core_value_zh]

RepoLists ==
    UNION {{[i \in 1..n |-> [name |-> RepoNames[i], description |-> d[i],
                              readme_content |-> r[i]]] :
                d \in [1..n -> {<<>>, <<"a">>}], r \in [1..n -> {<<>>, <<"r">>}]} :
           n \in 0..MaxRepos}

\* the backend's answers within one pass: to the description's translation,
\* to the analysis prompt, and to the calls that follow a good analysis
TextAnswers == {[kind |-> "status"], [kind |-> "network"],
                [kind |-> "ok", content |-> Str(<<"z">>)]}
AnalysisGood == <<"{", "f", "u", "}">>
AnalysisAnswers ==
    {[kind |-> "status"],
     [kind |-> "ok", content |-> Str(<<"b">>)],         \* not JSON
     [kind |-> "ok", content |-> Str(<<"{", "}">>)],    \* JSON without the keys
     [kind |-> "ok", content |-> Str(AnalysisGood)]}

\* _generate_enhanced_description
generate_enhanced_description(features_zh, answer) ==
    IF Truthy(call_deepseek_api(answer))
    THEN [core_value_zh |-> <<>>, use_cases_zh |-> <<>>]   \* no line has a known label
    ELSE [core_value_zh |-> <<"P">> \o features_zh[1], use_cases_zh |-> <<"D">>]

\* analyze_repository_content: None, or the keys to update, and the number
\* of backend calls it made
analyze_repository_content(repo, answer, rest) ==
    LET response == call_deepseek_api(answer)
    IN  IF repo.readme_content = <<>> THEN [value |-> PyNone, calls |-> 0]
        ELSE IF ~Truthy(response) \/ Strip(response.s) # AnalysisGood
        THEN [value |-> PyNone, calls |-> 1]
        ELSE LET features_zh == << translate_text(<<"f">>, rest).value >>
                 use_cases_zh == translate_text(<<"u">>, rest).value
                 enhanced_info == generate_enhanced_description(features_zh, rest)
             IN  [value |-> [type |-> "dict",
                             features |-> << <<"f">> >>,
                             features_zh |-> features_zh,
                             use_cases |-> <<"u">>,
                             use_cases_zh |-> enhanced_info.use_cases_zh,
                             core_value_zh |-> enhanced_info.core_value_zh],
                  calls |-> 4]

\* (a faulty variant: a description the backend did not translate is blanked)
description_zh_blank(repo, answer) ==
    IF repo.description # <<>> /\ answer.kind = "ok"
    THEN translate_text(repo.description, answer)
    ELSE [value |-> <<>>, calls |-> IF repo.description # <<>> THEN 1 ELSE 0]

\* repo['description_zh']
description_zh(repo, answer) ==
    IF repo.description # <<>>
    THEN translate_text(repo.description, answer)
    ELSE [value |-> <<>>, calls |-> 0]

\* the body of one pass of the loop: the record appended and the calls made
translate_repository(repo, answer, analysis, rest) ==
    LET zh == description_zh(repo, answer)
        found == analyze_repository_content(repo, analysis, rest)
        keys == IF repo.readme_content = <<>>
                THEN Keys(<<>>, <<>>, <<>>, <<>>, <<>>)
                ELSE IF found.value.type = "dict"
                THEN Keys(found.value.features, found.value.features_zh,
                          found.value.use_cases, found.value.use_cases_zh,
                          found.value.core_value_zh)
                ELSE Unset    \* analysis_result is None: nothing is updated
    IN  [repo |-> [name |-> repo.name, description |-> repo.description,
                   readme_content |-> repo.readme_content,
                   description_zh |-> zh.value, keys |-> keys],
         calls |-> zh.calls + found.calls,
         failed |-> (IF zh.calls = 1 /\ answer.kind # "ok" THEN 1 ELSE 0)
                    + (IF found.calls >= 1 /\ analysis.kind # "ok" THEN 1 ELSE 0)
                    + (IF found.calls = 4 /\ rest.kind # "ok" THEN 3 ELSE 0)]

\* every pass there can be, for every record (computed once)
RepoPasses ==
    {[repo |-> repo, out |-> translate_repository(repo, answer, analysis, rest)] :
        repo \in UNION {{l[i] : i \in 1..Len(l)} : l \in RepoLists},
        answer \in TextAnswers, analysis \in AnalysisAnswers, rest \in TextAnswers}

\* one pass of `for i, repo in enumerate(repositories)`
TranslateRepo ==
    /\ call = "translate_repositories" /\ pc = "run"
    /\ Len(translated_repos) < Len(repositories_arg)
    /\ \E pass \in RepoPasses :
          /\ pass.repo = repositories_arg[Len(translated_repos) + 1]
          /\ translated_repos' = Append(translated_repos, pass.out.repo)
          /\ requests' = Min(requests + pass.out.calls, RequestCap)
          /\ fails' = Min(fails + pass.out.failed, RequestCap)
          /\ served' = [kind |-> IF served = [kind |-> "ok"]
                                    \/ pass.out.failed < pass.out.calls
                                 THEN "ok" ELSE "failed"]
    /\ throttle_sleeps' = throttle_sleeps + 1    \* the time.sleep(1) that ends the pass
    /\ UNCHANGED <<call, pc, result, raised, text_args, repositories_arg, max_retries,
                   attempt, sleeps, all_posts, has_next_page, cursor, wire, pn_text,
                   pn_result, pipeline>>

\* `return translated_repos`
TranslateReposReturn ==
    /\ call = "translate_repositories" /\ pc = "run"
    /\ Len(translated_repos) = Len(repositories_arg)
    /\ result' = translated_repos
    /\ pc' = "done"
    /\ UNCHANGED <<call, raised, requests, fails, served, text_args, repositories_arg,
                   translated_repos, scraping, pipeline>>

----------------------------------------------------------------------------
(* The number normalizer as an operation *)

\* what _parse_number returns for each text (computed once)
ParsedNumbers == [text \in PNTexts |-> parse_number(text)]

ParseNumber ==
    /\ call = "parse_number" /\ pc = "run"
    /\ pn_result' = ParsedNumbers[pn_text]
    /\ pc' = "done"
    /\ UNCHANGED <<others, call, max_retries, attempt, sleeps, result, raised, requests,
                   fails, served, throttle_sleeps, pn_text, all_posts, has_next_page,
                   cursor, wire>>

----------------------------------------------------------------------------
(* MarkdownGenerator.  A document is the sequence of its lines, a line is a *)
(* sequence of strings; the Chinese labels have ASCII stand-ins.  In the    *)
(* daily pages and the index a date is the string "date".                   *)

\* str(n) of a natural number
RECURSIVE Decimal(_)
Decimal(n) ==
    LET digit == <<"0", "1", "2", "3", "4", "5", "6", "7", "8", "9">>
    IN  IF n < 10 THEN <<digit[n + 1]>>
        ELSE Decimal(n \div 10) \o <<digit[(n % 10) + 1]>>

\* (a faulty variant: only the first part is kept)
JoinLines_first(parts) == IF parts = <<>> THEN <<>> ELSE Head(parts)

\* "\n".join of parts that are themselves lines joined by "\n"
RECURSIVE JoinLines(_)
JoinLines(parts) ==
    IF parts = <<>> THEN <<>> ELSE Head(parts) \o JoinLines(Tail(parts))

\* _generate_repository_section ("'" stands for the backquote); the counts of the model stay below 1000,
\* where _format_number is str(num)
generate_repository_section(repo, index) ==
    LET topics_str == JoinLines([i \in 1..Len(repo.topics) |->
                          (IF i = 1 THEN <<>> ELSE <<" ">>) \o <<"'", repo.topics[i], "'">>])
    IN  << <<"##", " ">> \o Decimal(index) \o <<".", " ", repo.name>>,
           <<>>,
           <<"link", ": ", "[", repo.name, "]", "(", "https://github.com/", repo.name, ")">>,
           <<>>,
           <<"stars", ": ">> \o Decimal(repo.stars) \o <<" | ", "forks", ": ">>
               \o Decimal(repo.forks) \o <<" | ", "language", ": ", repo.language>>,
           <<>>,
           <<"**", "english", "**", ":">>,
           <<">", " ">> \o repo.description,
           <<>>,
           <<"**", "chinese", "**", ":">>,
           <<">", " ">> \o repo.description_zh,
           <<>> >>
        \o (IF topics_str # <<>>
            THEN << <<"###", " ", "tags">>, <<>>, topics_str, <<>> >>
            ELSE <<>>)
        \o << <<"---">>, <<>> >>

\* _get_top_languages: the three most frequent languages, ties in the order
\* of first appearance, joined by ", "
get_top_languages(repositories) ==
    LET n == Len(repositories)
        langs == {repositories[i].language : i \in 1..n}
        count(l) == Cardinality({i \in 1..n : repositories[i].language = l})
        first(l) == CHOOSE i \in 1..n :
                        /\ repositories[i].language = l
                        /\ \A j \in 1..(i - 1) : repositories[j].language # l
        before(l, m) == count(l) > count(m) \/ (count(l) = count(m) /\ first(l) < first(m))
        at(k) == CHOOSE l \in langs : Cardinality({m \in langs : before(m, l)}) = k - 1
    IN  JoinLines([k \in 1..Min(3, Cardinality(langs)) |->
                      (IF k = 1 THEN <<>> ELSE <<", ">>) \o <<at(k)>>])

\* _generate_github_markdown_content
generate_github_markdown_content(repositories) ==
    LET n == Len(repositories)
    IN  << <<"---">>, <<"title: ", "GitHub daily", "date">>, <<"description: ", "GitHub daily", "date">>,
           <<"date: ", "date">>, <<"tags:">>, <<"  - ", "github">>, <<"  - ", "trending">>,
           <<"  - ", "date">>, <<"  - ", "date">>, <<"---">>, <<>>,
           <<"#", " ", "GitHub daily", "date">>, <<>> >>
        \o JoinLines([i \in 1..n |-> generate_repository_section(repositories[i], i)])
        \o << <<"##", " ", "statistics">>, <<>>,
              <<"| ", "metric", " | ", "value", " |">>, <<"|------|------|">>,
              <<"| ", "total projects", " | ">> \o Decimal(n) \o <<" |">>,
              <<"| ", "top languages", " | ">> \o get_top_languages(repositories) \o <<" |">>,
              <<>>,
              <<"##", " ", "links">>, <<>>, <<"- ", "official page">>, <<"- ", "history">>,
              <<>>, <<"---">>, <<>>, <<"*", "generated", "*">> >>

\* _generate_product_section (the API gives no tags: no tags block)
generate_product_section(product, index) ==
    << <<"##", " ">> \o Decimal(index) \o <<".", " ", product.name>>,
       <<>>,
       <<"link", ": ", "[", product.name, "]", "(", product.url, ")">>,
       <<>>,
       <<"votes", ": ">> \o Decimal(product.votes),
       <<>>,
       <<"**", "english", "**", ":">>,
       <<">", " ">> \o product.description,
       <<>>,
       <<"**", "chinese", "**", ":">>,
       <<">", " ">> \o product.description_zh,
       <<>>,
       <<"---">>, <<>> >>

\* _generate_producthunt_markdown_content; the average is printed with "%.0f"
\* (round half to even)
generate_producthunt_markdown_content(products) ==
    LET n == Len(products)
        total == IF n = 0 THEN 0
                 ELSE LET RECURSIVE sum(_)
                          sum(i) == IF i = 0 THEN 0 ELSE products[i].votes + sum(i - 1)
                      IN  sum(n)
        q == IF n = 0 THEN 0 ELSE total \div n
        r == IF n = 0 THEN 0 ELSE total % n
        average == IF 2 * r < n \/ n = 0 THEN q
                   ELSE IF 2 * r > n THEN q + 1
                   ELSE IF q % 2 = 0 THEN q ELSE q + 1
    IN  << <<"---">>, <<"title: ", "ProductHunt daily", "date">>, <<"description: ", "ProductHunt daily", "date">>,
           <<"date: ", "date">>, <<"tags:">>, <<"  - ", "producthunt">>, <<"  - ", "products">>,
           <<"  - ", "date">>, <<"  - ", "date">>, <<"---">>, <<>>,
           <<"#", " ", "ProductHunt daily", "date">>, <<>> >>
        \o JoinLines([i \in 1..n |-> generate_product_section(products[i], i)])
        \o << <<"##", " ", "statistics">>, <<>>,
              <<"| ", "metric", " | ", "value", " |">>, <<"|------|------|">>,
              <<"| ", "total products", " | ">> \o Decimal(n) \o <<" |">>,
              <<"| ", "average votes", " | ">> \o Decimal(average) \o <<" |">>,
              <<>>,
              <<"##", " ", "links">>, <<>>, <<"- ", "official page">>, <<"- ", "history">>,
              <<>>, <<"---">>, <<>>, <<"*", "generated", "*">> >>

\* generate_today_file: the lines of index.md
generate_today_file(github_repos, producthunt_products) ==
    LET brief(items) ==
            [i \in 1..Min(5, Len(items)) |->
                Decimal(i) \o <<". ", "**", items[i].name, "**", " - ">>
                \o SubSeq(items[i].description_zh, 1, Min(200, Len(items[i].description_zh)))
                \o <<"...">>]
    IN  << <<"#", " ", "today", "date">>, <<>>, <<"##", " ", "GitHub top 5">>, <<>> >>
        \o brief(github_repos)
        \o << <<>>, <<"##", " ", "ProductHunt top 5">>, <<>> >>
        \o brief(producthunt_products)
        \o << <<>>, <<"##", " ", "statistics">>, <<>>,
              <<"- ", "GitHub", ": ">> \o Decimal(Len(github_repos)),
              <<"- ", "ProductHunt", ": ">> \o Decimal(Len(producthunt_products)) >>

----------------------------------------------------------------------------
(* The history pages.  A file of the output directory is known by the part *)
(* of its name that the pattern's * stands for ("2024-02-01" in             *)
(* github-trending-2024-02-01.md), a sequence of characters; a date is a    *)
(* record of year, month and day.                                           *)

\* datetime.now() of a run, by the day of the clock
DateOfDay == << [type |-> "date", y |-> 2024, m |-> 1, d |-> 31],
                [type |-> "date", y |-> 2024, m |-> 2, d |-> 1],
                [type |-> "date", y |-> 2024, m |-> 2, d |-> 2],
                [type |-> "date", y |-> 2024, m |-> 2, d |-> 3] >>

current_date(t) == DateOfDay[Min(t \div Day, Len(DateOfDay) - 1) + 1]

\* %m, %d: two digits
Pad2(n) == IF n < 10 THEN <<"0">> \o Decimal(n) ELSE Decimal(n)

\* date.strftime('%Y-%m-%d'), for the years of four digits
strftime(date) == Decimal(date.y) \o <<"-">> \o Pad2(date.m) \o <<"-">> \o Pad2(date.d)

DaysIn(y, m) ==
    IF m \in {4, 6, 9, 11} THEN 30
    ELSE IF m # 2 THEN 31
    ELSE IF y % 4 = 0 /\ (y % 100 # 0 \/ y % 400 = 0) THEN 29 ELSE 28

\* datetime.strptime(s, "%Y-%m-%d"): the date, or None where it raises
\* ValueError (%Y takes four digits, %m and %d one or two)
strptime(s) ==
    LET dashes == {i \in 1..Len(s) : s[i] = "-"}
        i == CHOOSE k \in dashes : \A l \in dashes : k <= l
        j == CHOOSE k \in dashes : \A l \in dashes : k >= l
        ys == SubSeq(s, 1, i - 1)
        ms == SubSeq(s, i + 1, j - 1)
        ds == SubSeq(s, j + 1, Len(s))
        digits(p) == \A k \in 1..Len(p) : p[k] \in Digits
    IN  IF Cardinality(dashes) # 2 THEN PyNone
        ELSE IF ~(Len(ys) = 4 /\ Len(ms) \in 1..2 /\ Len(ds) \in 1..2) THEN PyNone
        ELSE IF ~(digits(ys) /\ digits(ms) /\ digits(ds)) THEN PyNone
        ELSE IF ~(DigitsVal(ys) >= 1 /\ DigitsVal(ms) \in 1..12) THEN PyNone
        ELSE IF DigitsVal(ds) \notin 1..DaysIn(DigitsVal(ys), DigitsVal(ms)) THEN PyNone
        ELSE [type |-> "date", y |-> DigitsVal(ys), m |-> DigitsVal(ms),
              d |-> DigitsVal(ds)]

\* the characters of the names, in the order of their code points
Alphabet == <<"-", ".", "0", "1", "2", "3", "4", "5", "6", "7", "8", "9",
              "a", "e", "h", "i", "l", "o", "r", "s", "t", "y">>
Ord(c) == CHOOSE k \in 1..Len(Alphabet) : Alphabet[k] = c

\* path a < path b as strings: the paths differ from the * part on, which
\* ".md" follows
PathLess(a, b) ==
    LET x == a \o <<".">>
        y == b \o <<".">>
    IN  \E k \in 1..Len(y) :
            /\ k <= Len(x) + 1
            /\ SubSeq(x, 1, k - 1) = SubSeq(y, 1, k - 1)
            /\ k = Len(x) + 1 \/ Ord(x[k]) < Ord(y[k])

\* the 7 of `recent_files = files[:7]`
RecentFiles == 7

\* (a faulty variant: the entries of a month are in ascending order)
later_first_reversed(a, b) == a.d < b.d

\* `sorted(..., key=lambda x: x[0], reverse=True)` inside a month
later_first(a, b) == a.d > b.d

\* generate_github_history_page, generate_producthunt_history_page: the
\* lines of the page from the names that match the pattern prefix*.md
generate_history_page(prefix, names) ==
    LET found == [k \in 1..Cardinality(names) |->
                     CHOOSE s \in names :
                         Cardinality({t \in names : PathLess(s, t)}) = k - 1]
        date_obj == [k \in 1..Len(found) |-> strptime(found[k])]
        dated == {k \in 1..Len(found) : date_obj[k].type = "date"}
        year_month_groups == {<<date_obj[k].y, date_obj[k].m>> : k \in dated}
        sorted_months ==
            [n \in 1..Cardinality(year_month_groups) |->
                CHOOSE g \in year_month_groups :
                    Cardinality({h \in year_month_groups :
                        h[1] > g[1] \/ (h[1] = g[1] /\ h[2] > g[2])}) = n - 1]
        members(g) == {k \in dated : <<date_obj[k].y, date_obj[k].m>> = g}
        \* a stable sort: equal dates keep the order of the list
        files_in_month(g) ==
            [n \in 1..Cardinality(members(g)) |->
                CHOOSE k \in members(g) :
                    Cardinality({l \in members(g) :
                        \/ later_first(date_obj[l], date_obj[k])
                        \/ date_obj[l].d = date_obj[k].d /\ l < k}) = n - 1]
        link(k) == <<"-", " ", "[">> \o Pad2(date_obj[k].m) \o <<"M">>
                   \o Pad2(date_obj[k].d) \o <<"D", "]", "(", "./", prefix>>
                   \o found[k] \o <<".md", ")">>
        month(g) == << <<"###", " ">> \o Decimal(g[1]) \o <<"Y">> \o Pad2(g[2]) \o <<"M">>,
                       <<>> >>
                    \o [n \in 1..Cardinality(members(g)) |-> link(files_in_month(g)[n])]
                    \o << <<>> >>
        \* _get_date_range
        earlier(a, b) == a.y < b.y \/ (a.y = b.y /\ (a.m < b.m \/ (a.m = b.m /\ a.d < b.d)))
        long(date) == Decimal(date.y) \o <<"Y">> \o Pad2(date.m) \o <<"M">>
                      \o Pad2(date.d) \o <<"D">>
        min_date == date_obj[CHOOSE k \in dated :
                                 \A l \in dated : ~earlier(date_obj[l], date_obj[k])]
        max_date == date_obj[CHOOSE k \in dated :
                                 \A l \in dated : ~earlier(date_obj[k], date_obj[l])]
        date_range == IF dated = {} THEN <<"no data">>
                      ELSE IF min_date = max_date THEN long(min_date)
                      ELSE long(min_date) \o <<" - ">> \o long(max_date)
        recent_files == SelectSeq([k \in 1..Min(RecentFiles, Len(found)) |-> k],
                                  LAMBDA k : k \in dated)
    IN  << <<"---">>, <<"title", ": ", prefix>>, <<"description", ": ", prefix>>,
           <<"---">>, <<>>, <<"#", " ", prefix, "history">>, <<>>,
           <<">", " ", "newest first">>, <<>>, <<"##", " ", "records">>, <<>> >>
        \o JoinLines([n \in 1..Len(sorted_months) |-> month(sorted_months[n])])
        \o << <<"##", " ", "statistics">>, <<>>,
              <<"-", " ", "**", "total", "**", ": ">> \o Decimal(Len(found)),
              <<"-", " ", "**", "span", "**", ": ">> \o date_range,
              <<"-", " ", "**", "source", "**", ": ", prefix>>,
              <<"-", " ", "**", "updated", "**", ": ", "daily">>,
              <<>>, <<"##", " ", "navigation">>, <<>>,
              <<"###", " ", "recent week">>, <<>> >>
        \o [n \in 1..Len(recent_files) |-> link(recent_files[n])]
        \o << <<>>, <<"---">>, <<"*", "updated", "*">> >>

\* the * part of the name of producthunt-history.md under producthunt-*.md
HistoryName == <<"h", "i", "s", "t", "o", "r", "y">>

\* the names the daily pages of the model's days have
DailyNames == {strftime(DateOfDay[k]) : k \in 1..Len(DateOfDay)}

\* other names that match the patterns: an older daily page, a name with a
\* day its month does not have, a name without a date
OtherNames == {<<"2", "0", "2", "3", "-", "1", "2", "-", "3", "1">>,
               <<"2", "0", "2", "4", "-", "0", "2", "-", "3", "0">>,
               <<"l", "a", "t", "e", "s", "t">>}

\* what glob.glob can find under one of the patterns
Listings == SUBSET (DailyNames \cup OtherNames \cup {HistoryName})

\* the page of every listing (computed once)
HistoryPages ==
    [prefix \in {"github-trending-", "producthunt-"} |->
        [names \in Listings |-> generate_history_page(prefix, names)] @@ <<>>]

\* `generate_github_history_page(); generate_producthunt_history_page()` on
\* the directory dir: both pages are written from the names found, and
\* producthunt-history.md is a name under producthunt-*.md from then on
history_pages(dir) ==
    [dir EXCEPT
        !.github_history = HistoryPages["github-trending-"][dir.github_names],
        !.producthunt_history = HistoryPages["producthunt-"][dir.producthunt_names],
        !.producthunt_names = dir.producthunt_names \cup {HistoryName}]

----------------------------------------------------------------------------
(* DayHotTool.run_daily_task.  What the scrapers return, how the backend    *)
(* answers, which writes the file system refuses and what else happens to a *)
(* run are its inputs.                                                      *)

\* what get_trending_repositories can return: records as
\* _parse_repository_article makes them, without a README
GithubSources ==
    {[i \in 1..n |-> [name |-> RepoNames[i],
                      description |-> IF i % 2 = 1 THEN <<"a">> ELSE <<>>,
                      language |-> IF i % 2 = 1 THEN "Python" ELSE "Go",
                      stars |-> 7 * i, forks |-> i,
                      topics |-> IF i = 1 THEN <<"t">> ELSE <<>>]] : n \in 0..MaxSource}

\* what get_trending_products can return (nothing, or MaxSource products):
\* named, by falling votes
ProductSources ==
    {[i \in 1..n |-> [name |-> <<"P1", "P2", "P3", "P4">>[i], url |-> "u",
                      description |-> IF i % 2 = 1 THEN <<"a">> ELSE <<>>,
                      tags |-> <<>>, votes |-> 2 * (MaxSource + 2 - i) - 1]] :
        n \in {0, MaxSource}}

\* translate_repositories on records without a README, and translate_products:
\* every record, in order, with its description_zh
translate_records(records, answer) ==
    [i \in 1..Len(records) |->
        [description_zh |-> description_zh(records[i], answer).value] @@ records[i]]

\* what a run meets: the scrapers' records, the backend's answer to every
\* call, whether each page can be written, whether mkdocs builds, and what
\* else happens: an Exception out of a stage that does not catch it, or a
\* stop signal (KeyboardInterrupt) while a stage runs
RunInputs ==
    [github : GithubSources, producthunt : ProductSources,
     backend : {[kind |-> "network"], [kind |-> "ok", content |-> Str(<<"z">>)]},
     github_page : BOOLEAN, producthunt_page : BOOLEAN, today : BOOLEAN,
     build : BOOLEAN,
     event : {"none", "translate raises", "today raises", "signal in scrape",
              "signal in mkdocs --version", "signal in mkdocs build"}]

\* the stages of a run, in the order of the code
Stages == <<"github_scraper", "producthunt_scraper", "translator",
            "markdown_generator", "site_builder">>

\* a run that has not happened; a page that was not written is <<>>.  calls
\* lists the stages the run entered; raised is what a stage raised into
\* run_daily_task.  In a run's record the history pages are only marked as
\* written and no name is listed: the lines and the names depend on the
\* directory and on the day (Written)
NoRun == [result |-> "none", signal |-> 0, stage |-> 0, calls |-> <<>>,
          raised |-> "none", github_repos |-> <<>>,
          producthunt_products |-> <<>>, backend |-> "none",
          translated_github_repos |-> <<>>, translated_producthunt_products |-> <<>>,
          github_file |-> "", producthunt_file |-> "", built |-> FALSE,
          written |-> [github_daily |-> <<>>, producthunt_daily |-> <<>>,
                       index |-> <<>>, github_history |-> <<>>,
                       producthunt_history |-> <<>>,
                       github_names |-> {}, producthunt_names |-> {}]]

\* (a faulty variant: one daily page is enough)
pages_written_either(github_file, producthunt_file) ==
    github_file # "" \/ producthunt_file # ""

\* (a faulty variant: the Product Hunt page is not looked at)
pages_written_github(github_file, producthunt_file) == github_file # ""

\* `if github_file and producthunt_file`
pages_written(github_file, producthunt_file) ==
    github_file # "" /\ producthunt_file # ""

\* (a faulty variant: the exception is let through)
caught_never(e) == e

\* `except Exception as e: ... return False`
caught(e) == "False"

\* run_daily_task: the step it got to, its locals, the pages it wrote, and
\* what it returned ("True", "False") or let through
run_daily_task(in) ==
    LET scraped == [NoRun EXCEPT !.stage = 2, !.calls = SubSeq(Stages, 1, 2),
                                 !.github_repos = in.github,
                                 !.producthunt_products = in.producthunt]
        translated == [scraped EXCEPT
            !.stage = 3, !.calls = SubSeq(Stages, 1, 3), !.backend = in.backend.kind,
            !.translated_github_repos = translate_records(in.github, in.backend),
            !.translated_producthunt_products =
                translate_records(in.producthunt, in.backend)]
        github_page == IF in.github_page
                       THEN generate_github_markdown_content(translated.translated_github_repos)
                       ELSE <<>>
        producthunt_page ==
            IF in.producthunt_page
            THEN generate_producthunt_markdown_content(
                     translated.translated_producthunt_products)
            ELSE <<>>
        daily == [translated EXCEPT
            !.stage = 4, !.calls = SubSeq(Stages, 1, 4),
            !.github_file = IF in.github_page THEN "github-trending-date.md" ELSE "",
            !.producthunt_file = IF in.producthunt_page THEN "producthunt-date.md" ELSE "",
            !.written = [NoRun.written EXCEPT !.github_daily = github_page,
                                        !.producthunt_daily = producthunt_page]]
        pages == [daily EXCEPT
            !.written = [daily.written EXCEPT
                !.index = IF in.today
                          THEN generate_today_file(translated.translated_github_repos,
                                                   translated.translated_producthunt_products)
                          ELSE <<>>,
                !.github_history = << <<"#", " ", "GitHub history">> >>,
                !.producthunt_history = << <<"#", " ", "ProductHunt history">> >>]]
        site == [pages EXCEPT !.stage = 5, !.calls = Stages]
    IN  IF in.event = "signal in scrape"
        THEN [NoRun EXCEPT !.stage = 1, !.calls = SubSeq(Stages, 1, 1), !.signal = 1,
                           !.raised = "KeyboardInterrupt",
                           !.result = "KeyboardInterrupt"]
        ELSE IF in.event = "translate raises"
        THEN [scraped EXCEPT !.stage = 3, !.calls = SubSeq(Stages, 1, 3),
                             !.raised = "Exception", !.result = caught("Exception")]
        ELSE IF in.event = "today raises"
        THEN [daily EXCEPT !.raised = "Exception", !.result = caught("Exception")]
        ELSE IF ~pages_written(daily.github_file, daily.producthunt_file)
        THEN [pages EXCEPT !.result = "False"]
        ELSE IF in.event = "signal in mkdocs --version"
        THEN [site EXCEPT !.signal = 1, !.result = "True"]
        ELSE IF in.event = "signal in mkdocs build"
        THEN [site EXCEPT !.signal = 1, !.raised = "KeyboardInterrupt",
                          !.result = "KeyboardInterrupt"]
        ELSE [site EXCEPT !.built = in.build, !.result = "True"]

\* every run there can be (computed once)
Runs == {run_daily_task(in) : in \in RunInputs}

\* the output directory after a run of the day `date`: what the run wrote
\* replaces what was there, a daily page under the name of the day, and the
\* history pages are made from the names then present
Written(before, r, date) ==
    LET kept(page) == IF r.written[page] # <<>> THEN r.written[page] ELSE before[page]
        named(page, names) == IF r.written[page] # <<>>
                              THEN names \cup {strftime(date)} ELSE names
        dir == [github_daily |-> kept("github_daily"),
                producthunt_daily |-> kept("producthunt_daily"),
                index |-> kept("index"),
                github_history |-> before.github_history,
                producthunt_history |-> before.producthunt_history,
                github_names |-> named("github_daily", before.github_names),
                producthunt_names |-> named("producthunt_daily", before.producthunt_names)]
    IN  IF r.written.github_history # <<>> THEN history_pages(dir) ELSE dir

----------------------------------------------------------------------------
(* The entry points: main.py's main, and scheduler.py's main with           *)
(* DayHotScheduler.  The clock counts polling intervals; the daily job is   *)
(* due at the intervals congruent to DueAt modulo Day.                      *)

\* the time of day of the daily job ("05:00"), as a polling interval of the day
DueAt == 1

\* schedule's next_run of a daily job (re)scheduled at time t
NextDue(t) == CHOOSE u \in (t + 1)..(t + Day) : u % Day = DueAt

\* (a faulty variant: a failed run is let through as an Exception)
daily_task_raises(success) ==
    IF success = "True" THEN "none" ELSE IF success = "False" THEN "Exception" ELSE success

\* daily_task: what it lets through of what run_daily_task returned or
\* raised; it logs a returned False and catches an Exception
daily_task(success) ==
    IF success = "KeyboardInterrupt" THEN "KeyboardInterrupt" ELSE "none"

\* one run_daily_task call and the time it takes
RunOnce ==
    \E r \in Runs, d \in 0..MaxRunTime :
        /\ last_run' = r
        /\ runs' = runs + 1
        /\ signals' = signals + r.signal
        /\ files' = Written(files, r, current_date(now))
        /\ now' = now + d

\* main.py main: DayHotTool() raises when the configuration is invalid;
\* sys.exit(0) after a successful run and on KeyboardInterrupt, else sys.exit(1)
MainPy ==
    /\ call = "main.py" /\ pc = "start"
    /\ \/ /\ tool' = FALSE
          /\ exit_status' = 1
          /\ UNCHANGED <<last_run, runs, signals, files, now>>
       \/ /\ tool' = TRUE
          /\ RunOnce
          /\ exit_status' = IF last_run'.result \in {"True", "KeyboardInterrupt"} THEN 0 ELSE 1
    /\ pc' = "exited"
    /\ UNCHANGED <<call, is_running, next_run>>
    /\ UNCHANGED <<scraping, text_args, result, raised, requests, fails, served,
                   repositories_arg, translated_repos>>

\* scheduler.py main up to the polling loop: start_scheduler initializes the
\* tool, registers the daily job and calls daily_task once.  An Exception or
\* a KeyboardInterrupt on the way (and in the loop) goes to stop_scheduler;
\* start_scheduler returns, main returns and the process ends with status 0
StartScheduler ==
    /\ call = "scheduler.py" /\ pc = "start"
    /\ \/ /\ tool' = FALSE            \* initialize_tool raises
          /\ is_running' = FALSE
          /\ pc' = "exited" /\ exit_status' = 0
          /\ UNCHANGED <<last_run, runs, signals, files, now, next_run>>
       \/ /\ tool' = TRUE
          /\ next_run' = NextDue(now)
          /\ RunOnce
          /\ IF daily_task(last_run'.result) # "none"
             THEN is_running' = FALSE /\ pc' = "exited" /\ exit_status' = 0
             ELSE is_running' = TRUE /\ pc' = "poll" /\ exit_status' = exit_status
    /\ UNCHANGED call
    /\ UNCHANGED <<scraping, text_args, result, raised, requests, fails, served,
                   repositories_arg, translated_repos>>

\* `while self.is_running: schedule.run_pending()`: the job runs if it is due
\* and is scheduled again; daily_task logs what run_daily_task returns
RunPending ==
    /\ call = "scheduler.py" /\ pc = "poll" /\ is_running
    /\ IF now >= next_run
       THEN /\ RunOnce
            /\ next_run' = NextDue(now')
            /\ IF daily_task(last_run'.result) # "none"
               THEN is_running' = FALSE /\ pc' = "exited" /\ exit_status' = 0
               ELSE is_running' = TRUE /\ pc' = "sleep" /\ exit_status' = exit_status
       ELSE /\ pc' = "sleep"
            /\ UNCHANGED <<last_run, runs, signals, files, now, next_run, is_running,
                           exit_status>>
    /\ UNCHANGED <<call, tool>>
    /\ UNCHANGED <<scraping, text_args, result, raised, requests, fails, served,
                   repositories_arg, translated_repos>>

\* time.sleep(60)
Sleep ==
    /\ call = "scheduler.py" /\ pc = "sleep" /\ now < MaxClock
    /\ now' = now + 1
    /\ pc' = "poll"
    /\ UNCHANGED <<call, tool, is_running, next_run, last_run, runs, files, signals,
                   exit_status>>
    /\ UNCHANGED <<scraping, text_args, result, raised, requests, fails, served,
                   repositories_arg, translated_repos>>

\* KeyboardInterrupt inside the loop, outside a task: stop_scheduler
StopSignal ==
    /\ call = "scheduler.py" /\ pc \in {"poll", "sleep"}
    /\ signals' = signals + 1
    /\ is_running' = FALSE
    /\ pc' = "exited" /\ exit_status' = 0
    /\ UNCHANGED <<call, tool, next_run, now, last_run, runs, files>>
    /\ UNCHANGED <<scraping, text_args, result, raised, requests, fails, served,
                   repositories_arg, translated_repos>>

\* the directories the history pages are made on: any names under the two
\* patterns, producthunt-history.md there or not
Directories ==
    {[NoRun.written EXCEPT
         !.github_names = g,
         !.producthunt_names = p \cup (IF old THEN {HistoryName} ELSE {}),
         !.producthunt_history = IF old THEN << <<"#", " ", "old">> >> ELSE <<>>] :
     g \in SUBSET (DailyNames \cup OtherNames),
     p \in {DailyNames, OtherNames, {}, DailyNames \cup OtherNames},
     old \in BOOLEAN}

\* MarkdownGenerator's two history pages, made on a directory as it is found
GenerateHistoryPages ==
    /\ call = "history pages" /\ pc = "start"
    /\ files' = history_pages(files)
    /\ pc' = "exited"
    /\ UNCHANGED <<call, tool, is_running, next_run, now, last_run, runs, signals,
                   exit_status>>
    /\ UNCHANGED <<scraping, text_args, result, raised, requests, fails, served,
                   repositories_arg, translated_repos>>

----------------------------------------------------------------------------
(* run.py: the interactive menu *)

\* what the user can type at the prompt
MenuInputs == {<<"0">>, <<"1">>, <<"2">>, <<"3">>, <<"4">>, <<"5">>, <<"6">>, <<"7">>,
               <<"7", "6">>, <<" ", "6", " ">>, <<" ", "3">>, <<>>}

\* the branch of main's if/elif chain a choice takes: the command run, the
\* help or the exit, or the message of the else branch
menu_branch(choice) ==
    CASE choice = <<"0">> -> "exit"
      [] choice = <<"1">> -> "python main.py"
      [] choice = <<"2">> -> "python scheduler.py"
      [] choice = <<"3">> -> "python build_site.py build"
      [] choice = <<"4">> -> "python build_site.py serve"
      [] choice = <<"5">> -> "python build_site.py deploy"
      [] choice = <<"7", "6">> -> "print_help"
      [] OTHER -> "invalid choice"

\* one pass of `while True`: the menu, input().strip(), the branch taken; a
\* command's failure or interruption is caught in run_command, a
\* KeyboardInterrupt at the prompt ends the loop
RunPy ==
    /\ call = "run.py" /\ pc = "start"
    /\ \/ /\ signals < 1
          /\ signals' = signals + 1
          /\ pc' = "exited" /\ exit_status' = 0
          /\ UNCHANGED <<text_arg, result>>
       \/ \E line \in MenuInputs :
             /\ text_arg' = line
             /\ result' = <<menu_branch(Strip(line))>>
             /\ IF menu_branch(Strip(line)) = "exit"
                THEN pc' = "exited" /\ exit_status' = 0
                ELSE pc' = "start" /\ exit_status' = exit_status
             /\ UNCHANGED signals
    /\ UNCHANGED <<call, tool, is_running, next_run, now, last_run, runs, files>>
    /\ UNCHANGED <<scraping, content_arg, title_arg, raised, requests, fails, served,
                   repositories_arg, translated_repos>>

----------------------------------------------------------------------------
(* The specification *)

vars == <<call, pc, max_retries, attempt, sleeps, result, raised, requests, fails,
          served, throttle_sleeps, pn_text, pn_result, all_posts, has_next_page,
          cursor, wire, text_arg, content_arg, title_arg, repositories_arg,
          translated_repos, tool, is_running, next_run, now, last_run, runs, files,
          signals, exit_status>>

Calls == {"github", "hackernews", "producthunt", "parse_number", "translate_text",
          "summarize_news_content", "translate_repositories"}

Init ==
    /\ call \in Calls
    /\ pc = "run"
    /\ max_retries \in (IF call \in {"github", "hackernews"} THEN 0..MaxRetries ELSE {0})
    /\ attempt = 0
    /\ sleeps = <<>>
    /\ result = <<>>
    /\ raised = FALSE
    /\ requests = 0
    /\ fails = 0
    /\ served = [status |-> "none"]
    /\ throttle_sleeps = 0
    /\ all_posts = <<>>
    /\ has_next_page = TRUE
    /\ cursor = ""
    /\ wire = [query_cursor |-> "",
               before |-> [first |-> TRUE, hasNextPage |-> TRUE, endCursor |-> "", total |-> 0],
               latest |-> [first |-> TRUE, hasNextPage |-> TRUE, endCursor |-> "", total |-> 0]]
    /\ pn_text \in (IF call = "parse_number" THEN PNTexts ELSE {<<>>})
    /\ pn_result = 0
    /\ text_arg \in (IF call = "translate_text" THEN Texts ELSE {<<>>})
    /\ content_arg \in (IF call = "summarize_news_content" THEN NewsContents ELSE {<<>>})
    /\ title_arg \in (IF call = "summarize_news_content" THEN Titles ELSE {<<>>})
    /\ repositories_arg \in (IF call = "translate_repositories" THEN RepoLists ELSE {<<>>})
    /\ translated_repos = <<>>
    /\ tool = FALSE /\ is_running = FALSE /\ next_run = 0 /\ now = 0
    /\ last_run = NoRun /\ runs = 0 /\ files = NoRun.written /\ signals = 0
    /\ exit_status = -1

Next ==
    \/ TranslateText
    \/ SummarizeNews
    \/ TranslateRepo
    \/ TranslateReposReturn
    \/ ParseNumber
    \/ GHAttempt
    \/ GHExhausted
    \/ HNAttempt
    \/ HNExhausted
    \/ PHStart
    \/ PHFetchPage
    \/ PHFinish

Spec == Init /\ [][Next]_vars

\* the calls are sequential code: a call that can take a step takes it
FairSpec == Spec /\ WF_vars(Next)

\* The entry points are checked on their own
PipelineInit ==
    /\ call \in {"main.py", "scheduler.py", "history pages", "run.py"}
    /\ pc = "start"
    /\ tool = FALSE
    /\ is_running = FALSE
    /\ next_run = 0
    /\ now \in (IF call \in {"main.py", "scheduler.py"} THEN 1..Day ELSE {1})
    /\ last_run = NoRun
    /\ runs = 0
    /\ files \in (IF call = "history pages" THEN Directories ELSE {NoRun.written})
    /\ signals = 0
    /\ exit_status = -1
    /\ max_retries = 0 /\ attempt = 0 /\ sleeps = <<>> /\ result = <<>>
    /\ raised = FALSE /\ requests = 0 /\ fails = 0 /\ served = [status |-> "none"]
    /\ throttle_sleeps = 0 /\ all_posts = <<>> /\ has_next_page = TRUE /\ cursor = ""
    /\ wire = [query_cursor |-> "",
               before |-> [first |-> TRUE, hasNextPage |-> TRUE, endCursor |-> "", total |-> 0],
               latest |-> [first |-> TRUE, hasNextPage |-> TRUE, endCursor |-> "", total |-> 0]]
    /\ pn_text = <<>> /\ pn_result = 0
    /\ text_arg = <<>> /\ content_arg = <<>> /\ title_arg = <<>>
    /\ repositories_arg = <<>> /\ translated_repos = <<>>

PipelineNext ==
    \/ MainPy
    \/ StartScheduler
    \/ RunPending
    \/ Sleep
    \/ StopSignal
    \/ GenerateHistoryPages
    \/ RunPy

PipelineSpec == PipelineInit /\ [][PipelineNext]_vars

----------------------------------------------------------------------------
(* Properties *)

RetryCalls == {"github", "hackernews"}

\* the last attempt's response offered records
Succeeded == call \in RetryCalls /\ served.status = "ok"

\* every attempt so far failed, and the call has returned
AllFailed == call \in RetryCalls /\ pc = "done" /\ served.status # "ok"

\* what the observer expects the call to return from the response `served`
ReturnsServed ==
    /\ call = "github" =>
          LET want == Readable(served.page, Listed(served.page))
          IN  /\ Len(result) = Cardinality(want)
              /\ {result[i].pos : i \in 1..Len(result)} = want
    /\ call = "hackernews" =>
          LET want == Stories(served.items)
              ids  == {result[i].id : i \in 1..Len(result)}
          IN  /\ Len(result) = Min(TopNews, Cardinality(want))
              /\ Cardinality(ids) = Len(result)
              /\ ids \subseteq want

\* C1: in get_trending_repositories and get_trending_news, N failed attempts
\* followed by a successful one (N < max_retries) make exactly N+1 attempts,
\* the call returns the records of the successful attempt, and no attempt
\* follows the success.
C1_RetryThenSuccess ==
    /\ [](Succeeded =>
            /\ pc = "done"
            /\ fails < max_retries
            /\ requests = fails + 1
            /\ result # <<>>
            /\ ReturnsServed)
    /\ [][Succeeded => requests' = requests]_vars

C1_Witness ==
    call = "github" /\ pc = "done" /\ served.status = "ok" /\ fails = 2 /\ requests = 3

\* C2: when every attempt fails, whatever the kind of failure, the two calls
\* make exactly max_retries attempts, return the empty list and raise nothing.
C2_AllFail ==
    AllFailed =>
        /\ requests = max_retries
        /\ fails = max_retries
        /\ result = <<>>
        /\ ~raised

C2_Witness ==
    /\ call = "hackernews" /\ pc = "done" /\ max_retries = 3
    /\ fails = 3 /\ served.status = "exc"

\* C3: after the failed attempt with 0-based index k the loops sleep exactly
\* 2^k seconds before attempt k+1; there is no sleep after the last permitted
\* attempt nor after a successful one.
C3_Backoff ==
    call \in RetryCalls =>
        /\ \A i \in 1..Len(sleeps) : sleeps[i] = Pow(2, i - 1)
        /\ Len(sleeps) = IF AllFailed /\ fails > 0 THEN fails - 1 ELSE fails

C3_Witness ==
    /\ call = "github" /\ pc = "done" /\ max_retries = 3
    /\ served.status = "no records" /\ sleeps = <<1, 2>>

Returned(c) == call = c /\ pc = "done"

\* The count a text of the form <number>[,]*[kKmM]? denotes: n / 10^d times
\* 10^sx, for the digits n, d of them after the point, and the suffix's power.
CountDigitsOf(text) == Without(Lower(text), {",", "k", "m"})
CountN(text) == DigitsVal(Without(CountDigitsOf(text), {"."}))
CountD(text) == FracDigits(CountDigitsOf(text))
CountSx(text) ==
    LET last == LowerChar(text[Len(text)])
    IN  IF last = "k" THEN 3 ELSE IF last = "m" THEN 6 ELSE 0

\* the integers nearest to n * 10^sx / 10^d (two of them on a tie)
Nearest(n, d, sx) ==
    IF sx >= d THEN {n * Pow(10, sx - d)}
    ELSE LET q == Pow(10, d - sx)
             f == n \div q
         IN  {r \in {f, f + 1} : 2 * (IF r * q > n THEN r * q - n ELSE n - r * q) <= q}

\* C4: for every text of the form <number>[,]*[kKmM]? _parse_number returns
\* round(value * scale), scale 1, 1000 or 1000000 by the suffix.
C4_Rounds ==
    (Returned("parse_number") /\ pn_text \in CountTexts) =>
        pn_result \in Nearest(CountN(pn_text), CountD(pn_text), CountSx(pn_text))

\* a count in the widest sense: commas and blanks anywhere, an optional sign,
\* digits with at most one point, and at most one k or m, at the end
IsCount(text) ==
    LET t == Lower(Without(text, {",", " "}))
    IN  IF t # <<>> /\ t[Len(t)] \in {"k", "m"}
        THEN IsFloatLiteral(SubSeq(t, 1, Len(t) - 1))
        ELSE IsFloatLiteral(t)

\* C5: for every text that is not a parsable count _parse_number returns 0
\* (and raises nothing).
C5_MalformedGivesZero ==
    (Returned("parse_number") /\ ~IsCount(pn_text)) => pn_result = 0

\* C6: every record a scraper returns has a non-empty name (repository,
\* product) or title (news story).
C6_RecordsAreNamed ==
    /\ (Returned("github") \/ Returned("producthunt")) =>
          \A i \in 1..Len(result) : result[i].name # ""
    /\ Returned("hackernews") =>
          \A i \in 1..Len(result) : result[i].title # ""

\* the page positions of the returned repositories
ResultPos == [i \in 1..Len(result) |-> result[i].pos]

\* C7: get_trending_repositories tries article.Box-row, then div.Box-row,
\* then any article; a later selector counts only when every earlier one
\* matched nothing, and the call returns the records parsed from the entries
\* of the first selector that matched (the fallback's, when the primary
\* matched nothing).
C7_SelectorCascade ==
    (call = "github" /\ served.status = "ok") =>
        LET page == served.page
        IN  /\ Primary(page) # {} =>
                  ResultPos = AscSeq(Readable(page, Primary(page)))
            /\ (Primary(page) = {} /\ Fallback(page) # {}) =>
                  ResultPos = AscSeq(Readable(page, Fallback(page)))
            /\ (Primary(page) = {} /\ Fallback(page) = {}) =>
                  ResultPos = AscSeq(Readable(page, Generic(page)))

C7_Witness ==
    /\ Returned("github") /\ served.status = "ok"
    /\ Primary(served.page) = {}
    /\ Cardinality(Fallback(served.page)) >= 5
    /\ Len(result) = Cardinality(Fallback(served.page))

\* the number a star text stands for
StarValue(text) ==
    CASE text = <<"1", ".", "2", "k">> -> 1200
      [] text = <<"3", ",", "4", "0", "0">> -> 3400
      [] text = <<"5", "0", "0">> -> 500
      [] OTHER -> parse_number(text)

\* C8: in get_trending_repositories an entry that fails to parse (it raises,
\* or has no name) is the only one dropped: the call returns the entries that
\* parse, in page order, with their numbers normalized ("1.2k", "3,400", "500"
\* give 1200, 3400, 500).
C8_EntryFailureIsolated ==
    (call = "github" /\ served.status = "ok") =>
        LET page == served.page
            good == Readable(page, Listed(page))
        IN  /\ Len(result) = Cardinality(good)
            /\ \A i \in 1..Len(result) :
                  /\ result[i].pos \in good
                  /\ result[i].name = page[result[i].pos].repo
                  /\ result[i].stars = StarValue(page[result[i].pos].stars_text)
            /\ \A i, j \in 1..Len(result) : i < j => result[i].pos < result[j].pos

C8_Witness ==
    /\ Returned("github") /\ served.status = "ok"
    /\ Len(served.page) = 3
    /\ served.page[2].broken
    /\ ResultPos = <<1, 3>>
    /\ result[1].stars = 1200 /\ result[2].stars = 500

\* C9: every scraper call issues a bounded number of requests and returns:
\* at most max_retries attempts for GitHub and Hacker News, and the Product
\* Hunt pagination ends whatever the API answers.
C9_CallsReturn ==
    /\ [](call \in RetryCalls => requests <= max_retries)
    /\ <>(pc = "done")

\* C10: the first Product Hunt query carries the empty cursor, every later
\* one the endCursor of the page before it, and no query follows a page with
\* hasNextPage = false or the accumulation of 30 posts.
C10_CursorChain ==
    (call = "producthunt" /\ requests >= 1) =>
        IF wire.before.first
        THEN wire.query_cursor = ""
        ELSE /\ wire.query_cursor = wire.before.endCursor
             /\ wire.before.hasNextPage
             /\ wire.before.total < 30

C10_Witness ==
    /\ Returned("producthunt")
    /\ wire.before.total = 20 /\ wire.latest.total = 30
    /\ wire.query_cursor = "c2"
    /\ requests = 3

----------------------------------------------------------------------------
(* Product Hunt: the products returned *)

ReturnedIds == {result[i].id : i \in 1..Len(result)}

\* the aggregated posts that are not among the returned products
LeftOut == {i \in 1..Len(all_posts) : all_posts[i].id \notin ReturnedIds}

VotesOrdered ==
    /\ Len(result) <= 10
    /\ \A i \in 1..(Len(result) - 1) : result[i].votes >= result[i + 1].votes

\* C11 as stated: at most 10 products, in non-increasing order of votes, each
\* with at least as many votes as every aggregated post that was not returned.
C11_TopByVotes ==
    (Returned("producthunt") /\ served.status = "ok") =>
        /\ VotesOrdered
        /\ \A i \in 1..Len(result) : \A j \in LeftOut :
              result[i].votes >= all_posts[j].votesCount

\* C11 amended: at most 10 products, in non-increasing order of votes, each
\* with at least as many votes as every aggregated post that has a name and
\* was not returned (a post without a name is dropped whatever its votes).
C11_TopByVotesAmongNamed ==
    (Returned("producthunt") /\ served.status = "ok") =>
        /\ VotesOrdered
        /\ \A i \in 1..Len(result) : \A j \in LeftOut :
              all_posts[j].name # "" => result[i].votes >= all_posts[j].votesCount

C11_Witness ==
    /\ Returned("producthunt") /\ served.status = "ok"
    /\ Len(all_posts) >= 20
    /\ Len(result) = 9
    /\ \E j \in LeftOut : all_posts[j].name = ""
    /\ \E j \in LeftOut : all_posts[j].name # ""

----------------------------------------------------------------------------
(* translate_text *)

\* C12: translate_text with an empty or whitespace-only text returns that
\* text unchanged and sends no request to the backend.
C12_BlankUntouched ==
    (Returned("translate_text") /\ \A i \in 1..Len(text_arg) : text_arg[i] = " ") =>
        result = text_arg /\ requests = 0

C12_Witness ==
    Returned("translate_text") /\ text_arg = <<" ", " ">> /\ requests = 0

\* C13: for a non-empty text, when the backend call fails in any way,
\* translate_text returns the original text and raises nothing.
C13_FailureGivesOriginal ==
    (Returned("translate_text") /\ text_arg # <<>> /\ served.kind \in ApiFailures) =>
        result = text_arg /\ ~raised

C13_Witness ==
    /\ Returned("translate_text") /\ text_arg = <<"a", " ">>
    /\ requests = 1 /\ served.kind = "empty choices"

----------------------------------------------------------------------------
(* summarize_news_content *)

\* the backend answered with a non-empty string
GotSummary ==
    /\ Returned("summarize_news_content")
    /\ content_arg # <<>> \/ title_arg # <<>>
    /\ served.kind = "ok" /\ served.content.type = "str" /\ served.content.s # <<>>

\* C14: for a non-empty content or title and a successful backend response
\* the summary returned has between 10 and 120 characters, whatever the
\* lengths of the response and the title.
C14_SummaryLength ==
    GotSummary => Len(result) >= 10 /\ Len(result) <= 120

----------------------------------------------------------------------------
(* translate_repositories *)

\* C15: when the backend fails on every call, translate_repositories returns
\* the records of its input, as many and in the same order, each with a
\* description_zh equal to its description.
C15_FailedBackendKeepsDescriptions ==
    (Returned("translate_repositories") /\ served # [kind |-> "ok"]) =>
        /\ Len(result) = Len(repositories_arg)
        /\ \A i \in 1..Len(result) :
              /\ result[i].name = repositories_arg[i].name
              /\ result[i].description = repositories_arg[i].description
              /\ result[i].description_zh = repositories_arg[i].description

C15_Witness ==
    /\ Returned("translate_repositories") /\ served = [kind |-> "failed"]
    /\ Len(repositories_arg) = 2 /\ repositories_arg[2].description = <<"a">>
    /\ repositories_arg[1].readme_content # <<>>
    /\ fails >= 3
----------------------------------------------------------------------------
(* run_daily_task and the pages *)

\* the lines of a document that begin with "## "
IsHeader(line) == Len(line) >= 2 /\ line[1] = "##" /\ line[2] = " "
Headers(doc) == SelectSeq(doc, IsHeader)

\* "## i. name"
NumberedHeader(i, name) ==
    <<"##", " ", <<"0", "1", "2", "3", "4", "5", "6", "7", "8", "9">>[i + 1], ".", " ", name>>

\* the numbered headers of the records, in order
RecordHeaders(records) == [i \in 1..Len(records) |-> NumberedHeader(i, records[i].name)]

\* what translation makes of a record: the same record, with description_zh
\* the backend's translation, or the description itself
Translated(before, after, backend) ==
    /\ Len(after) = Len(before)
    /\ \A i \in 1..Len(before) :
          /\ after[i].name = before[i].name
          /\ after[i].description = before[i].description
          /\ after[i].description_zh =
                 IF backend = "ok" /\ before[i].description # <<>>
                 THEN <<"z">> ELSE before[i].description

\* the last run got to step 4 with exactly one source empty
OneSourceEmpty ==
    /\ last_run.stage >= 4
    /\ (last_run.github_repos = <<>>) # (last_run.producthunt_products = <<>>)

\* C16: whatever its stages meet, run_daily_task lets no exception through
\* (only the stop signal, which is no failure of a stage, gets out); and a
\* run that reaches step 4 with one source empty has translated the other
\* source's records and has handed both lists to the page writers: each daily
\* page the file system takes is written, with a numbered section for every
\* record of its source.
C16_EmptySourceDoesNotStopRun ==
    /\ last_run.result \in {"none", "True", "False", "KeyboardInterrupt"}
    /\ last_run.result = "KeyboardInterrupt" => last_run.signal = 1
    /\ OneSourceEmpty =>
          /\ Translated(last_run.github_repos, last_run.translated_github_repos,
                        last_run.backend)
          /\ Translated(last_run.producthunt_products,
                        last_run.translated_producthunt_products, last_run.backend)
          /\ last_run.github_file # "" =>
                /\ files.github_daily # <<>>
                /\ SubSeq(Headers(files.github_daily), 1, Len(last_run.github_repos))
                       = RecordHeaders(last_run.github_repos)
          /\ last_run.producthunt_file # "" =>
                /\ files.producthunt_daily # <<>>
                /\ SubSeq(Headers(files.producthunt_daily), 1,
                          Len(last_run.producthunt_products))
                       = RecordHeaders(last_run.producthunt_products)

\* an Exception after both daily pages were written, GitHub having given nothing
C16_Witness ==
    /\ call = "main.py" /\ pc = "exited"
    /\ last_run.result = "False" /\ last_run.stage = 4
    /\ last_run.github_repos = <<>>
    /\ Len(last_run.producthunt_products) = 2
    /\ last_run.backend = "ok"
    /\ last_run.github_file # "" /\ last_run.producthunt_file # ""
    /\ files.github_daily # <<>> /\ files.producthunt_daily # <<>>
    /\ files.index = <<>>

\* the GitHub page the last run wrote
GithubPageWritten == last_run.stage >= 4 /\ last_run.github_file # ""

\* C20 (as stated): the page of N records has N "##" headers.
C20_HeadersAreRecords ==
    GithubPageWritten =>
        Len(Headers(files.github_daily)) = Len(last_run.translated_github_repos)

\* C20: the page of N records has the N numbered "##" headers of the
\* records, in input order, followed by the two "##" headers of the
\* statistics and the links; its statistics row shows N.
C20_RecordHeadersThenTwo ==
    GithubPageWritten =>
        LET N == Len(last_run.translated_github_repos)
            doc == files.github_daily
        IN  /\ Headers(doc) = RecordHeaders(last_run.translated_github_repos)
                                \o << <<"##", " ", "statistics">>, <<"##", " ", "links">> >>
            /\ \E k \in 1..Len(doc) :
                  doc[k] = <<"| ", "total projects", " | ",
                             <<"0", "1", "2", "3", "4", "5", "6", "7", "8", "9">>[N + 1],
                             " |">>

C20_Witness ==
    /\ GithubPageWritten
    /\ Len(last_run.translated_github_repos) = 2
    /\ Len(Headers(files.github_daily)) = 4

----------------------------------------------------------------------------
(* The entry points *)

\* C17 (as stated): a process that ends after its tool failed to initialize,
\* or after a failed run that nothing interrupted, ends with a non-zero status.
C17_FailureExitsNonZero ==
    (pc = "exited" /\ call \in {"main.py", "scheduler.py"}
        /\ (~tool \/ (last_run.result = "False" /\ signals = 0)))
    => exit_status # 0

\* C18: the scheduler starts one run before it polls; in the loop a run
\* starts only in run_pending, only when the daily job is due, and the job is
\* then scheduled for its next day; every poll is followed by time.sleep(60);
\* a run that fails leaves the loop running.
C18_RunsOnlyWhenDue ==
    /\ [](call = "scheduler.py" /\ pc \in {"poll", "sleep"} =>
              runs >= 1 /\ next_run % Day = DueAt)
    /\ [][call = "scheduler.py" =>
            /\ (pc = "start" /\ pc' = "poll") => runs' = 1
            /\ runs' # runs =>
                  /\ runs' = runs + 1
                  /\ \/ pc = "start" /\ runs = 0
                     \/ pc = "poll" /\ now >= next_run /\ next_run' > now'
            /\ pc = "poll" => pc' \in {"poll", "sleep", "exited"} /\ now' >= now
            /\ (pc = "poll" /\ pc' = "poll") => UNCHANGED vars
            /\ (pc = "sleep" /\ pc' = "poll") => now' = now + 1 /\ runs' = runs
            /\ (pc = "poll" /\ runs' # runs /\ last_run'.result \in {"True", "False"}) =>
                  pc' = "sleep" /\ is_running'
       ]_vars

\* a run in the loop has failed and the scheduler is about to sleep
C18_Witness ==
    /\ call = "scheduler.py" /\ pc = "sleep" /\ is_running
    /\ runs = 2 /\ last_run.result = "False" /\ signals = 0

\* C19 (as stated): once a stop signal was delivered to the scheduler, it has
\* left its loop and is_running is False (no run can start from there).
C19_StopSignalStops ==
    (call = "scheduler.py" /\ signals > 0) => (~is_running /\ pc = "exited")

----------------------------------------------------------------------------
(* Product Hunt: how many products, and after how many attempts *)

\* the aggregated posts that have a name
Named == {i \in 1..Len(all_posts) : all_posts[i].name # ""}

\* C29 (as stated): a successful get_trending_products returns min(10, K)
\* products, K being the number of aggregated posts with a name; posts
\* without a name never push the result below 10 while 10 named posts exist.
C29_TenOfTheNamed ==
    (Returned("producthunt") /\ served.status = "ok") =>
        Len(result) = Min(10, Cardinality(Named))

\* C24 (as stated): a failed fetch of get_trending_products is followed by a
\* backoff sleep and another attempt, and the empty list is returned only
\* after max_retries (3 by default) failed attempts.
C24_RetriedBeforeEmpty ==
    (Returned("producthunt") /\ fails > 0) =>
        /\ sleeps # <<>>
        /\ result = <<>> => fails = 3

----------------------------------------------------------------------------
(* GitHub: when a selector of the cascade is taken *)

\* C23 (as stated): a selector is taken only when it matches at least 5
\* entries; one that matches 1 to 4 entries is passed over and the next
\* selector of the cascade is tried.
C23_ThresholdOfFive ==
    (call = "github" /\ served.status = "ok") =>
        LET page == served.page
            taken == IF Cardinality(Primary(page)) >= 5 THEN Primary(page)
                     ELSE IF Cardinality(Fallback(page)) >= 5 THEN Fallback(page)
                     ELSE IF Cardinality(Generic(page)) >= 5 THEN Generic(page)
                     ELSE {}
        IN  ResultPos = AscSeq(Readable(page, taken))

----------------------------------------------------------------------------
(* translate_repositories: the enrichment keys and the pauses *)

\* C25 (as stated): every record translate_repositories returns carries the
\* keys features, features_zh, use_cases, use_cases_zh and core_value_zh, and
\* a record with a README whose analysis gave nothing (no response, or one
\* that is not the expected JSON) has them at their empty defaults.
C25_EnrichmentKeysSet ==
    Returned("translate_repositories") =>
        \A i \in 1..Len(result) :
            /\ result[i].keys # Unset
            /\ (result[i].readme_content # <<>> /\ result[i].keys.features = <<>>) =>
                  result[i].keys = Keys(<<>>, <<>>, <<>>, <<>>, <<>>)

\* C22 (as stated): a time.sleep(1) lies between any two consecutive requests
\* of translate_repositories, those made for one record included; the
\* requests sent are then at most one more than the pauses taken.
C22_PauseBetweenRequests ==
    call = "translate_repositories" => requests <= throttle_sleeps + 1

----------------------------------------------------------------------------
(* The history pages *)

\* the names of the model that carry a date: those of the daily pages
DatedNames == DailyNames \cup {<<"2", "0", "2", "3", "-", "1", "2", "-", "3", "1">>}

\* the date of such a name, as the number yyyymmdd
DateNumber(name) == DigitsVal(Without(name, {"-"}))

\* the lines of a page after the line `from` and before the next line `to`
Between(page, from, to) ==
    LET a == CHOOSE i \in 1..Len(page) : page[i] = from
        b == CHOOSE i \in (a + 1)..Len(page) :
                 page[i] = to /\ \A j \in (a + 1)..(i - 1) : page[j] # to
    IN  SubSeq(page, a + 1, b - 1)

RecordLines(page) ==
    Between(page, <<"##", " ", "records">>, <<"##", " ", "statistics">>)
RecentLines(page) == Between(page, <<"###", " ", "recent week">>, <<"---">>)

\* the name a link line points to, without the pattern's prefix and ".md"
IsLink(line) == Contains(line, "./")
LinkName(line) ==
    SubSeq(line, (CHOOSE i \in 1..Len(line) : line[i] = "./") + 2, Len(line) - 2)
Links(part) ==
    LET at == SelectSeq([i \in 1..Len(part) |-> i], LAMBDA i : IsLink(part[i]))
    IN  [k \in 1..Len(at) |-> LinkName(part[at[k]])]

IsMonthHeader(line) == line # <<>> /\ line[1] = "###"
MonthHeader(name) ==
    <<"###", " ">> \o SubSeq(name, 1, 4) \o <<"Y">> \o SubSeq(name, 6, 7) \o <<"M">>

\* the history page lists exactly the dated names, each once, newest first,
\* each under the header of its month, the months newest first
ListsDatedOnce(page, names) ==
    LET part == RecordLines(page)
        links == Links(part)
        heads == SelectSeq([i \in 1..Len(part) |-> i], LAMBDA i : IsMonthHeader(part[i]))
    IN  /\ {links[k] : k \in 1..Len(links)} = names \cap DatedNames
        /\ Len(links) = Cardinality(names \cap DatedNames)
        /\ \A k \in 1..(Len(links) - 1) : DateNumber(links[k]) > DateNumber(links[k + 1])
        /\ \A i \in 1..Len(part) :
              IsLink(part[i]) =>
                  \E h \in 1..Len(heads) :
                      /\ heads[h] < i
                      /\ \A g \in 1..Len(heads) : heads[g] < i => heads[g] <= heads[h]
                      /\ part[heads[h]] = MonthHeader(LinkName(part[i]))
        /\ \A h \in 1..Len(heads) :
              /\ h < Len(heads) => part[heads[h]] # part[heads[h + 1]]
              /\ heads[h] + 2 <= Len(part) /\ IsLink(part[heads[h] + 2])

\* both history pages have just been made from the directory
HistoryMade ==
    \/ call = "history pages" /\ pc = "exited"
    \/ call \in {"main.py", "scheduler.py"} /\ last_run.written.producthunt_history # <<>>

TotalShown(page) ==
    LET line == page[CHOOSE i \in 1..Len(page) :
                         /\ Len(page[i]) > 6
                         /\ SubSeq(page[i], 1, 6) = <<"-", " ", "**", "total", "**", ": ">>]
    IN  DigitsVal(SubSeq(line, 7, Len(line)))

\* C28 (as stated): after a run of the pipeline the total on each history page
\* is the number of dated daily files of its source in the output directory,
\* and the recent-week list links at most 7 files, dated daily files only.
C28_TotalIsDailyFiles ==
    (call \in {"main.py", "scheduler.py"} /\ last_run.written.producthunt_history # <<>>) =>
        /\ TotalShown(files.github_history)
              = Cardinality(files.github_names \cap DatedNames)
        /\ TotalShown(files.producthunt_history)
              = Cardinality(files.producthunt_names \cap DatedNames)
        /\ \A page \in {files.github_history, files.producthunt_history} :
              LET recent == Links(RecentLines(page))
              IN  /\ Len(recent) <= RecentFiles
                  /\ \A k \in 1..Len(recent) : recent[k] \in DatedNames

----------------------------------------------------------------------------
(* run_daily_task: the order of the stages and the value returned *)

\* a run of run_daily_task has ended, by return or by a KeyboardInterrupt
RunEnded == call \in {"main.py", "scheduler.py"} /\ runs >= 1

\* C26: a run enters its stages in the order GitHub scrape, Product Hunt
\* scrape, translation, Markdown rendering, site build, each at most once,
\* and the site build only when both daily pages have been written.
C26_StagesInOrder ==
    RunEnded =>
        LET order == <<"github_scraper", "producthunt_scraper", "translator",
                       "markdown_generator", "site_builder">>
            entered == last_run.calls
        IN  /\ Len(entered) \in 1..Len(order)
            /\ entered = SubSeq(order, 1, Len(entered))
            /\ Contains(entered, "site_builder") =>
                  /\ last_run.github_file # "" /\ last_run.producthunt_file # ""
                  /\ last_run.written.github_daily # <<>>
                  /\ last_run.written.producthunt_daily # <<>>
                  /\ files.github_daily = last_run.written.github_daily
                  /\ files.producthunt_daily = last_run.written.producthunt_daily
            /\ last_run.built => Contains(entered, "site_builder")

\* a run that went through the five stages and built the site
C26_Witness ==
    /\ RunEnded
    /\ Len(last_run.calls) = 5 /\ last_run.calls[5] = "site_builder"
    /\ last_run.built /\ last_run.result = "True"
    /\ Len(last_run.github_repos) = 2

\* C27: run_daily_task returns True exactly when both daily pages were
\* written and no stage raised, whether or not the site was built; when a
\* daily page could not be written and nothing raised, it returns False
\* after the history pages have been made.
C27_TrueIffPagesWritten ==
    RunEnded =>
        LET both == last_run.github_file # "" /\ last_run.producthunt_file # ""
        IN  /\ last_run.result = "True" <=> (both /\ last_run.raised = "none")
            /\ (last_run.raised = "none" /\ ~both) =>
                  /\ last_run.result = "False"
                  /\ ~Contains(last_run.calls, "site_builder")
                  /\ last_run.written.github_history # <<>>
                  /\ last_run.written.producthunt_history # <<>>
                  /\ ListsDatedOnce(files.github_history, files.github_names)
            /\ (both /\ last_run.raised = "none" /\ ~last_run.built) =>
                  last_run.result = "True"

\* the Product Hunt page could not be written: False, with the index and the
\* history pages made
C27_Witness ==
    /\ RunEnded
    /\ last_run.result = "False" /\ last_run.raised = "none"
    /\ last_run.github_file # "" /\ last_run.producthunt_file = ""
    /\ files.index # <<>>
    /\ files.github_names # {}
    /\ Len(Links(RecordLines(files.github_history))) = 1

----------------------------------------------------------------------------
(* run.py *)

\* C30 (as stated): every option the menu lists is taken for what the menu
\* says: 0 leaves the loop, 1 to 5 run their command and come back to the
\* menu, 6 shows the help; only an input outside 0 to 6 is called invalid.
C30_MenuOptionsDispatch ==
    (call = "run.py" /\ result # <<>>) =>
        LET choice == Strip(text_arg)
            listed == {<<"0">>, <<"1">>, <<"2">>, <<"3">>, <<"4">>, <<"5">>, <<"6">>}
        IN  /\ choice = <<"0">> => pc = "exited"
            /\ (pc = "exited" /\ signals = 0) => choice = <<"0">>
            /\ choice = <<"1">> => result = <<"python main.py">>
            /\ choice = <<"2">> => result = <<"python scheduler.py">>
            /\ choice = <<"3">> => result = <<"python build_site.py build">>
            /\ choice = <<"4">> => result = <<"python build_site.py serve">>
            /\ choice = <<"5">> => result = <<"python build_site.py deploy">>
            /\ choice = <<"6">> => result = <<"print_help">>
            /\ result = <<"invalid choice">> <=> choice \notin listed

====
